---- MODULE Spec2Model ----
(***************************************************************************)
(* A model of the Frame runtime's event monitor (frame_runtime/src/        *)
(* event.rs) and of the state machines that drive it.                      *)
(*                                                                         *)
(* The monitor is driven in one of two ways, fixed when the system is      *)
(* built (variable sm):                                                    *)
(*   - "TestMachine": the unit tests of event.rs, which call event_sent,   *)
(*     event_handled and transition_occurred directly with the messages    *)
(*     and transitions of the two-state TestMachine;                       *)
(*   - a generated machine (EventMonitorSm, Transition), whose dispatch    *)
(*     loop calls the monitor at the points of the notification protocol.  *)
(***************************************************************************)
EXTENDS Integers, Sequences, FiniteSets, TLC

VARIABLES
    \* ---- EventMonitor (event.rs:20-30)
    event_history_capacity,
    transition_history_capacity,
    event_history,
    transition_history,
    event_sent_callbacks,
    event_handled_callbacks,
    transition_callbacks,
    \* ---- what the registered callbacks have been handed, in invocation order
    tape,
    \* ---- what the callbacks of the latest notification found in the two
    \*      histories, one entry per callback invoked
    seen,
    \* ---- the machine that owns the monitor
    sm,            \* which machine this is
    created,       \* the capacities the monitor was built with (arguments of new)
                   \* and the constructor that built it
    state,         \* the current state of the machine
    state_instance,\* which instance of the state is current: the ordinal of its construction
    constructed,   \* the number of state instances constructed so far
    state_stack,   \* the state stack: pushed state instances, top last
    stack,         \* the dispatches in progress, innermost last
    enters,        \* Transition machine: log written by its enter handlers
    exits,         \* Transition machine: log written by its exit handlers
    hooks,         \* Transition machine: log written by its two hook methods
    sm_tape,       \* StateStack machine: log written by its enter and exit handlers
    call,          \* the latest client call of the machine: the event, the state it
                   \* found, and where the logs and callback lists stood at its start
    \* ---- observers of the run (history variables, read by no action guard
    \*      except the bound on the number of client operations)
    ev_log,        \* events passed to event_handled since new / the last clear
    tr_log,        \* transitions passed to transition_occurred since new / clear
    ev_steady,     \* event capacity unchanged since ev_log was started
    tr_steady,     \* transition capacity unchanged since tr_log was started
    last_op,       \* the monitor operation performed by the latest step
    ops,           \* the client operations performed so far, in order
    trace,         \* current client call: dispatches, notifications and swaps, in order
    \* ---- the build process of frame_build (FrameBuild)
    build,         \* the FrameBuild configuration (self)
    build_result,  \* what the latest FrameBuild::run returned and wrote
    \* ---- the Demo machine of the runtime's tests
    demo           \* the Demo struct: state, state_context, x, y

monitor_vars == <<event_history_capacity, transition_history_capacity,
                  event_history, transition_history, event_sent_callbacks,
                  event_handled_callbacks, transition_callbacks>>
instance_vars == <<state_instance, constructed, state_stack>>
\* The two programs that run apart from a monitored machine.
other_vars == <<build, build_result, demo>>
\* Everything but the build process, and everything but the Demo machine.
monitored_vars == <<monitor_vars, tape, seen, sm, created, instance_vars, state, stack, enters,
                    exits, hooks, sm_tape, call, ev_log, tr_log, ev_steady, tr_steady, trace>>
machine_vars == <<sm, created, other_vars, instance_vars, state, stack, enters, exits, hooks,
                  sm_tape, call>>
observer_vars == <<ev_log, tr_log, ev_steady, tr_steady, last_op, ops, trace>>
vars == <<monitor_vars, tape, seen, machine_vars, observer_vars>>

----------------------------------------------------------------------------
\* Bounds of the model.

\* Client operations (interface calls of a generated machine, direct
\* notifications of the unit tests, registrations, clears, capacity changes)
\* per run.
MaxOps == 3
\* The finite non-zero capacity a client passes to new / set_*_history_capacity.
MaxCap == 2
\* Callbacks registered per stream.
MaxCallbacks == 2
\* Interface calls per run of a generated machine whose client does nothing
\* but call the interface.
MaxCalls == 5
\* Calls of the FrameBuild methods per build script.
MaxBuildCalls == 3
\* The largest depth a build script passes to max_depth / min_depth; the input
\* directory of the model is that deep.
MaxDepth == 2

----------------------------------------------------------------------------
\* Option<usize>: None is the empty tuple, Some(n) the one-element tuple.

None == <<>>
Some(n) == <<n>>
\* The value of a variable whose program is not the one running.
NoProgram == "none"
\* The capacities clients choose from: unbounded, disabled, and a finite bound.
Capacities == {None, Some(0), Some(MaxCap)}
\* The capacity the tests of the generated machines raise a history to.
SmRaisedCapacity == 7
\* The capacities clients pass to set_*_history_capacity.
NewCapacities == Capacities \cup {Some(SmRaisedCapacity)}

----------------------------------------------------------------------------
\* The deque helpers of event.rs.

\* VecDeque::pop_front: drop the front element; nothing on an empty deque.
pop_front(deque) == IF deque = <<>> THEN deque ELSE Tail(deque)

\* Faulty variants of push_to_deque, used to test the claims below: one drops
\* the newest entry instead of the oldest when the deque is full, one lacks
\* the check for capacity 0.
push_to_deque_pop_back(capacity, deque, elem) ==
    IF capacity # None
    THEN IF capacity[1] > 0
         THEN Append(IF Len(deque) >= capacity[1]
                     THEN SubSeq(deque, 1, Len(deque) - 1) ELSE deque, elem)
         ELSE deque
    ELSE Append(deque, elem)

push_to_deque_no_zero_check(capacity, deque, elem) ==
    IF capacity # None
    THEN Append(IF Len(deque) >= capacity[1] THEN pop_front(deque) ELSE deque, elem)
    ELSE Append(deque, elem)

\* Faulty variant of push_to_deque: a missing capacity read as capacity 0.
push_to_deque_none_disabled(capacity, deque, elem) ==
    IF capacity # None /\ capacity[1] > 0
    THEN Append(IF Len(deque) >= capacity[1] THEN pop_front(deque) ELSE deque, elem)
    ELSE deque

\* push_to_deque: with a finite capacity, nothing is stored at capacity 0;
\* otherwise one oldest entry is dropped if the deque is full, then the element
\* is appended.  Without a capacity the element is appended.
push_to_deque(capacity, deque, elem) ==
    IF capacity # None
    THEN IF capacity[1] > 0
         THEN Append(IF Len(deque) >= capacity[1] THEN pop_front(deque) ELSE deque, elem)
         ELSE deque
    ELSE Append(deque, elem)

\* resize_deque: with a finite new capacity, pop the front while the deque is
\* longer than it (reserve_exact changes no contents); None changes nothing.
\* Faulty variant of the eviction loop: pops at the back, keeping the oldest.
pop_front_while_over_pop_back(cap, deque) ==
    IF Len(deque) > cap THEN SubSeq(deque, 1, cap) ELSE deque

RECURSIVE pop_front_while_over(_, _)
pop_front_while_over(cap, deque) ==
    IF Len(deque) > cap THEN pop_front_while_over(cap, pop_front(deque)) ELSE deque

\* Faulty variant of resize_deque: reserves, but never evicts.
resize_deque_no_evict(new_capacity, deque) == deque

\* Faulty variant of resize_deque: a deque that has to grow, or gets no bound,
\* is rebuilt empty.
resize_deque_rebuilds(new_capacity, deque) ==
    IF new_capacity # None
    THEN IF Len(deque) < new_capacity[1] THEN <<>>
         ELSE pop_front_while_over(new_capacity[1], deque)
    ELSE <<>>

resize_deque(new_capacity, deque) ==
    IF new_capacity # None
    THEN pop_front_while_over(new_capacity[1], deque)
    ELSE deque

\* new_deque: an empty deque, whatever the capacity.
new_deque(capacity) == <<>>

\* Faulty variant of invoke_all: the list is walked from its end.
invoke_all_reversed(callbacks, stream, arg) ==
    [i \in 1..Len(callbacks) |-> <<stream, callbacks[Len(callbacks) + 1 - i], arg>>]

\* Invocation of a callback list on one argument: every callback, in list
\* order, is handed the argument (the for loops of event.rs:109-111, 123-125,
\* 137-139).  An invocation is recorded as <<stream, callback, argument>>.
invoke_all(callbacks, stream, arg) ==
    [i \in 1..Len(callbacks) |-> <<stream, callbacks[i], arg>>]

\* What the callbacks invoked by one notification find in the histories: the
\* callbacks cannot change the monitor, so each of them finds the histories as
\* they stand when the loop over the callbacks starts.
observe(tape_before, tape_after, events, transitions) ==
    [i \in 1..(Len(tape_after) - Len(tape_before)) |->
        [event_history |-> events, transition_history |-> transitions]]

----------------------------------------------------------------------------
\* Static machine descriptions.

Machines == {"TestMachine", "EventMonitorSm", "Transition", "StateStack"}
Generated == {"EventMonitorSm", "Transition", "StateStack"}

\* The events the unit tests of event.rs pass to the monitor: FrameMessage::Next
\* and the enter / exit messages of TestState A and B, by MethodInfo name.
TestEvents == {"next", "A:>", "B:>", "A:<", "B:<"}

TransitionInfo(id, kind, event, source, target) ==
    [id |-> id, kind |-> kind, event |-> event, source |-> source, target |-> target]

TransitionInstance(info, old_state, new_state) ==
    [info |-> info, old_state |-> old_state, new_state |-> new_state]

\* TRANSITIONS of the TestMachine and the two instances the tests build from
\* them (a2b, b2a).
TestTransitions ==
    { TransitionInstance(TransitionInfo(0, "Transition", "next", "A", "B"), "A", "B"),
      TransitionInstance(TransitionInfo(1, "ChangeState", "next", "B", "A"), "B", "A") }

\* Display of a transition as the tests log it: "A->B" or "A->>B".
to_string(t) ==
    t.old_state \o (IF t.info.kind = "ChangeState" THEN "->>" ELSE "->") \o t.new_state

EnterMsg(s) == s \o ":>"
ExitMsg(s) == s \o ":<"

InitialState(m) ==
    CASE m = "EventMonitorSm" -> "A"
      [] m = "Transition" -> "S0"
      [] m = "StateStack" -> "A"
      [] OTHER -> "A"

States(m) ==
    CASE m = "EventMonitorSm" -> {"A", "B", "C", "D"}
      [] m = "Transition" -> {"S0", "S1", "S2", "S3", "S4"}
      [] m = "StateStack" -> {"A", "B", "C"}
      [] OTHER -> {"A", "B"}

Interface(m) ==
    CASE m = "EventMonitorSm" -> {"change", "transit", "mult", "reset"}
      [] m = "Transition" -> {"transit", "change"}
      [] m = "StateStack" -> {"to_a", "to_b", "to_c", "push", "pop", "pop_change"}
      [] OTHER -> {}

\* Capacities a generated machine builds its monitor with.
SmEventCapacity == 5
SmTransitionCapacity == 3
DefaultEventCapacity == 0
DefaultTransitionCapacity == 1

\* Faulty variant of default: the two capacities are swapped.
default_swapped == <<Some(DefaultTransitionCapacity), Some(DefaultEventCapacity)>>
\* EventMonitor::default: the capacities default() passes to new.
default == <<Some(DefaultEventCapacity), Some(DefaultTransitionCapacity)>>

InitialCapacities(m) ==
    IF m = "EventMonitorSm"
    THEN <<Some(SmEventCapacity), Some(SmTransitionCapacity)>>
    ELSE default
\* The constructor a machine builds its monitor with.
Constructor(m) == IF m = "EventMonitorSm" THEN "new" ELSE "default"
\* The ways a client builds a monitor: new with two capacities, or default.
Constructions ==
    {<<event_capacity, transition_capacity, "new">> :
         event_capacity \in Capacities, transition_capacity \in Capacities}
    \cup {<<default[1], default[2], "default">>}

\* What a handler does besides its actions: nothing, a transition, a
\* change-state, or the dispatch of a further interface event.
NoOp == [kind |-> "none"]
DoTransition(id, event, source, target) ==
    [kind |-> "transition", info |-> TransitionInfo(id, "Transition", event, source, target)]
DoChangeState(id, event, source, target) ==
    [kind |-> "change_state", info |-> TransitionInfo(id, "ChangeState", event, source, target)]
DoDispatch(msg) == [kind |-> "dispatch", msg |-> msg]
\* The state stack operations of a handler: push the current state ($$[+]),
\* transition or change-state to the state popped off the stack ($$[-]).  The
\* static target of a popping transition is a placeholder.
PopPlaceholder == "$$[-]"
DoPush == [kind |-> "push"]
DoPopTransition(id, event, source) ==
    [kind |-> "pop_transition",
     info |-> TransitionInfo(id, "Transition", event, source, PopPlaceholder)]
DoPopChangeState(id, event, source) ==
    [kind |-> "pop_change_state",
     info |-> TransitionInfo(id, "ChangeState", event, source, PopPlaceholder)]

\* EventMonitorSm: A -transit-> B -transit-> C -transit-> D, the enter handlers
\* of B and C send transit again and the enter handler of D sends change;
\* change is a change-state A ->> B ->> C and D ->> A; reset is a change-state
\* back to A; mult changes no state.
EventMonitorSmHandler(s, msg) ==
    CASE s = "A" /\ msg = "transit" -> DoTransition(0, msg, "A", "B")
      [] s = "A" /\ msg = "change"  -> DoChangeState(1, msg, "A", "B")
      [] s = "B" /\ msg = "B:>"     -> DoDispatch("transit")
      [] s = "B" /\ msg = "transit" -> DoTransition(2, msg, "B", "C")
      [] s = "B" /\ msg = "change"  -> DoChangeState(3, msg, "B", "C")
      [] s = "B" /\ msg = "reset"   -> DoChangeState(4, msg, "B", "A")
      [] s = "C" /\ msg = "C:>"     -> DoDispatch("transit")
      [] s = "C" /\ msg = "transit" -> DoTransition(5, msg, "C", "D")
      [] s = "C" /\ msg = "reset"   -> DoChangeState(6, msg, "C", "A")
      [] s = "D" /\ msg = "D:>"     -> DoDispatch("change")
      [] s = "D" /\ msg = "change"  -> DoChangeState(7, msg, "D", "A")
      [] OTHER -> NoOp

\* Transition: S0 -> S1 -> S2 -> S3 -> S4 by transit (a transition) or change
\* (a change-state); the enter handler of S2 transitions on to S3 and the
\* enter handler of S4 change-states to S0.
TransitionHandler(s, msg) ==
    CASE s = "S0" /\ msg = "transit" -> DoTransition(0, msg, "S0", "S1")
      [] s = "S0" /\ msg = "change"  -> DoChangeState(1, msg, "S0", "S1")
      [] s = "S1" /\ msg = "transit" -> DoTransition(2, msg, "S1", "S2")
      [] s = "S1" /\ msg = "change"  -> DoChangeState(3, msg, "S1", "S2")
      [] s = "S2" /\ msg = "S2:>"    -> DoTransition(4, msg, "S2", "S3")
      [] s = "S2" /\ msg = "transit" -> DoTransition(5, msg, "S2", "S3")
      [] s = "S2" /\ msg = "change"  -> DoChangeState(6, msg, "S2", "S3")
      [] s = "S3" /\ msg = "transit" -> DoTransition(7, msg, "S3", "S4")
      [] s = "S3" /\ msg = "change"  -> DoChangeState(8, msg, "S3", "S4")
      [] s = "S4" /\ msg = "S4:>"    -> DoChangeState(9, msg, "S4", "S0")
      [] OTHER -> NoOp

\* StateStack: every state A, B, C handles to_a, to_b, to_c by a transition to
\* the state named, push by pushing itself, pop by a transition and pop_change
\* by a change-state to the popped state.  The transitions of a state are
\* numbered in this order, state by state.
StateOrdinal(s) == CASE s = "A" -> 0 [] s = "B" -> 1 [] OTHER -> 2
StateStackHandler(s, msg) ==
    CASE msg = "to_a" -> DoTransition(5 * StateOrdinal(s), msg, s, "A")
      [] msg = "to_b" -> DoTransition(5 * StateOrdinal(s) + 1, msg, s, "B")
      [] msg = "to_c" -> DoTransition(5 * StateOrdinal(s) + 2, msg, s, "C")
      [] msg = "push" -> DoPush
      [] msg = "pop" -> DoPopTransition(5 * StateOrdinal(s) + 3, msg, s)
      [] msg = "pop_change" -> DoPopChangeState(5 * StateOrdinal(s) + 4, msg, s)
      [] OTHER -> NoOp

Handler(m, s, msg) ==
    CASE m = "EventMonitorSm" -> EventMonitorSmHandler(s, msg)
      [] m = "Transition" -> TransitionHandler(s, msg)
      [] m = "StateStack" -> StateStackHandler(s, msg)
      [] OTHER -> NoOp

\* The Transition machine's enter and exit handlers log the state's name
\* (Transition::enter, Transition::exit).
LogsEnter(m, s, msg) == m = "Transition" /\ msg = EnterMsg(s)
LogsExit(m, s, msg) == m = "Transition" /\ msg = ExitMsg(s)
\* The hook methods of the Transition machine log the change of state in the
\* format of the kind (Transition::transition_hook, change_state_hook).
HookEntry(arrow, old_state, new_state) == old_state \o arrow \o new_state
\* The hooks log after a change of state of the given kind: the machine calls
\* the hook of the kind when it updates its state.
Hooked(kind, old_state, new_state) ==
    IF sm # "Transition" THEN hooks
    ELSE IF kind = "ChangeState"
         THEN Append(hooks, HookEntry("->>", old_state, new_state))
         ELSE Append(hooks, HookEntry("->", old_state, new_state))
\* The StateStack machine's enter and exit handlers log the message
\* (StateStack::log).
Logs(m, s, msg) == m = "StateStack" /\ msg \in {EnterMsg(s), ExitMsg(s)}

\* A dispatch in progress: the message, where its processing stands, and the
\* transition it performs once known.
NoInfo == [kind |-> "none"]
\* A state instance: the state and the ordinal of the instance's construction.
StateInstance(name, id) == [name |-> name, id |-> id]
NoInstance == StateInstance("", 0)
\* The value the handlers of an event give back, if the event has one: of the
\* events of the EventMonitorSm machine, change and mult return a value.  The
\* value stands for whatever the handler computed.
ReturnValue(m, msg) ==
    IF m = "EventMonitorSm" /\ msg \in {"change", "mult"} THEN Some(msg) ELSE None

\* Faulty variant of Frame: the event is built with its return value in place.
Frame_with_return(msg) ==
    [msg |-> msg, pc |-> "send", info |-> NoInfo, old_state |-> "", next |-> NoInstance,
     ret |-> ReturnValue(sm, msg)]
\* FrameEvent::new: an event starts without a return value.
Frame(msg) ==
    [msg |-> msg, pc |-> "send", info |-> NoInfo, old_state |-> "", next |-> NoInstance,
     ret |-> None]

----------------------------------------------------------------------------
\* The operations of the EventMonitor.  Each is the whole method: the history
\* write and the callback loop.  The observers record what was passed in.

\* add_event_sent_callback / add_event_handled_callback /
\* add_transition_callback: push the callback at the end of its list.  A
\* callback is named by the order of its registration within its stream.
add_event_sent_callback ==
    /\ stack = <<>> /\ Len(ops) < MaxOps
    /\ Len(event_sent_callbacks) < MaxCallbacks
    /\ event_sent_callbacks' =
           Append(event_sent_callbacks, Len(event_sent_callbacks) + 1)
    /\ last_op' = <<"add_event_sent_callback">>
    /\ ops' = Append(ops, <<"add_event_sent_callback">>)
    /\ UNCHANGED <<event_history_capacity, transition_history_capacity,
                   event_history, transition_history, event_handled_callbacks,
                   transition_callbacks, tape, seen, machine_vars,
                   ev_log, tr_log, ev_steady, tr_steady, trace>>

add_event_handled_callback ==
    /\ stack = <<>> /\ Len(ops) < MaxOps
    /\ Len(event_handled_callbacks) < MaxCallbacks
    /\ event_handled_callbacks' =
           Append(event_handled_callbacks, Len(event_handled_callbacks) + 1)
    /\ last_op' = <<"add_event_handled_callback">>
    /\ ops' = Append(ops, <<"add_event_handled_callback">>)
    /\ UNCHANGED <<event_history_capacity, transition_history_capacity,
                   event_history, transition_history, event_sent_callbacks,
                   transition_callbacks, tape, seen, machine_vars,
                   ev_log, tr_log, ev_steady, tr_steady, trace>>

add_transition_callback ==
    /\ stack = <<>> /\ Len(ops) < MaxOps
    /\ Len(transition_callbacks) < MaxCallbacks
    /\ transition_callbacks' =
           Append(transition_callbacks, Len(transition_callbacks) + 1)
    /\ last_op' = <<"add_transition_callback">>
    /\ ops' = Append(ops, <<"add_transition_callback">>)
    /\ UNCHANGED <<event_history_capacity, transition_history_capacity,
                   event_history, transition_history, event_sent_callbacks,
                   event_handled_callbacks, tape, seen, machine_vars,
                   ev_log, tr_log, ev_steady, tr_steady, trace>>

\* Faulty variants of the notifications: event_sent and event_handled looping
\* over the other stream's callback list, and transition_occurred returning
\* before its callbacks when the history is disabled.
event_sent_wrong_list(event) ==
    /\ tape' = tape \o invoke_all(event_handled_callbacks, "handled", event)
    /\ seen' = observe(tape, tape', event_history, transition_history)
    /\ last_op' = <<"event_sent", event>>
    /\ UNCHANGED <<monitor_vars, ev_log, tr_log, ev_steady, tr_steady>>

event_handled_wrong_list(event) ==
    /\ event_history' = push_to_deque(event_history_capacity, event_history, event)
    /\ tape' = tape \o invoke_all(event_sent_callbacks, "sent", event)
    /\ seen' = observe(tape, tape', event_history', transition_history)
    /\ ev_log' = Append(ev_log, event)
    /\ last_op' = <<"event_handled", event>>
    /\ UNCHANGED <<event_history_capacity, transition_history_capacity,
                   transition_history, event_sent_callbacks,
                   event_handled_callbacks, transition_callbacks,
                   tr_log, ev_steady, tr_steady>>

event_handled_skips_disabled(event) ==
    /\ event_history' = push_to_deque(event_history_capacity, event_history, event)
    /\ tape' = IF event_history_capacity = Some(0) THEN tape
               ELSE tape \o invoke_all(event_handled_callbacks, "handled", event)
    /\ seen' = observe(tape, tape', event_history', transition_history)
    /\ ev_log' = Append(ev_log, event)
    /\ last_op' = <<"event_handled", event>>
    /\ UNCHANGED <<event_history_capacity, transition_history_capacity,
                   transition_history, event_sent_callbacks,
                   event_handled_callbacks, transition_callbacks,
                   tr_log, ev_steady, tr_steady>>

transition_occurred_skips_disabled(transition) ==
    /\ transition_history' =
           push_to_deque(transition_history_capacity, transition_history, transition)
    /\ tape' = IF transition_history_capacity = Some(0) THEN tape
               ELSE tape \o invoke_all(transition_callbacks, "transition", transition)
    /\ seen' = observe(tape, tape', event_history, transition_history')
    /\ tr_log' = Append(tr_log, transition)
    /\ last_op' = <<"transition_occurred", transition>>
    /\ UNCHANGED <<event_history_capacity, transition_history_capacity,
                   event_history, event_sent_callbacks,
                   event_handled_callbacks, transition_callbacks,
                   ev_log, ev_steady, tr_steady>>

\* Faulty variant of event_sent: the event is pushed to the event history when
\* it is sent.
event_sent_writes_history(event) ==
    /\ event_history' = push_to_deque(event_history_capacity, event_history, event)
    /\ tape' = tape \o invoke_all(event_sent_callbacks, "sent", event)
    /\ seen' = observe(tape, tape', event_history', transition_history)
    /\ last_op' = <<"event_sent", event>>
    /\ UNCHANGED <<event_history_capacity, transition_history_capacity,
                   transition_history, event_sent_callbacks,
                   event_handled_callbacks, transition_callbacks,
                   ev_log, tr_log, ev_steady, tr_steady>>

\* event_sent: invoke the event-sent callbacks; no history is written.
event_sent(event) ==
    /\ tape' = tape \o invoke_all(event_sent_callbacks, "sent", event)
    /\ seen' = observe(tape, tape', event_history, transition_history)
    /\ last_op' = <<"event_sent", event>>
    /\ UNCHANGED <<monitor_vars, ev_log, tr_log, ev_steady, tr_steady>>

\* Faulty variant of event_handled: the callbacks run before the event is
\* pushed to the event history.
event_handled_callbacks_first(event) ==
    /\ event_history' = push_to_deque(event_history_capacity, event_history, event)
    /\ tape' = tape \o invoke_all(event_handled_callbacks, "handled", event)
    /\ seen' = observe(tape, tape', event_history, transition_history)
    /\ ev_log' = Append(ev_log, event)
    /\ last_op' = <<"event_handled", event>>
    /\ UNCHANGED <<event_history_capacity, transition_history_capacity,
                   transition_history, event_sent_callbacks,
                   event_handled_callbacks, transition_callbacks,
                   tr_log, ev_steady, tr_steady>>

\* event_handled: push the event to the event history, then invoke the
\* event-handled callbacks.
event_handled(event) ==
    /\ event_history' = push_to_deque(event_history_capacity, event_history, event)
    /\ tape' = tape \o invoke_all(event_handled_callbacks, "handled", event)
    /\ seen' = observe(tape, tape', event_history', transition_history)
    /\ ev_log' = Append(ev_log, event)
    /\ last_op' = <<"event_handled", event>>
    /\ UNCHANGED <<event_history_capacity, transition_history_capacity,
                   transition_history, event_sent_callbacks,
                   event_handled_callbacks, transition_callbacks,
                   tr_log, ev_steady, tr_steady>>

\* transition_occurred: push the transition to the transition history, then
\* invoke the transition callbacks.
transition_occurred(transition) ==
    /\ transition_history' =
           push_to_deque(transition_history_capacity, transition_history, transition)
    /\ tape' = tape \o invoke_all(transition_callbacks, "transition", transition)
    /\ seen' = observe(tape, tape', event_history, transition_history')
    /\ tr_log' = Append(tr_log, transition)
    /\ last_op' = <<"transition_occurred", transition>>
    /\ UNCHANGED <<event_history_capacity, transition_history_capacity,
                   event_history, event_sent_callbacks,
                   event_handled_callbacks, transition_callbacks,
                   ev_log, ev_steady, tr_steady>>

\* clear_event_history / clear_transition_history: replace the deque by a new
\* one built for the current capacity.
clear_event_history ==
    /\ stack = <<>> /\ Len(ops) < MaxOps
    /\ event_history' = new_deque(event_history_capacity)
    /\ ev_log' = <<>>
    /\ ev_steady' = TRUE
    /\ last_op' = <<"clear_event_history">>
    /\ ops' = Append(ops, <<"clear_event_history">>)
    /\ UNCHANGED <<event_history_capacity, transition_history_capacity,
                   transition_history, event_sent_callbacks,
                   event_handled_callbacks, transition_callbacks, tape, seen,
                   machine_vars, tr_log, tr_steady, trace>>

\* Faulty variant of clear_transition_history: the event history is replaced.
clear_transition_history_wrong_deque ==
    /\ stack = <<>> /\ Len(ops) < MaxOps
    /\ event_history' = new_deque(transition_history_capacity)
    /\ tr_log' = <<>>
    /\ tr_steady' = TRUE
    /\ last_op' = <<"clear_transition_history">>
    /\ ops' = Append(ops, <<"clear_transition_history">>)
    /\ UNCHANGED <<event_history_capacity, transition_history_capacity,
                   transition_history, event_sent_callbacks,
                   event_handled_callbacks, transition_callbacks, tape, seen,
                   machine_vars, ev_log, ev_steady, trace>>

clear_transition_history ==
    /\ stack = <<>> /\ Len(ops) < MaxOps
    /\ transition_history' = new_deque(transition_history_capacity)
    /\ tr_log' = <<>>
    /\ tr_steady' = TRUE
    /\ last_op' = <<"clear_transition_history">>
    /\ ops' = Append(ops, <<"clear_transition_history">>)
    /\ UNCHANGED <<event_history_capacity, transition_history_capacity,
                   event_history, event_sent_callbacks,
                   event_handled_callbacks, transition_callbacks, tape, seen,
                   machine_vars, ev_log, ev_steady, trace>>

\* Faulty variant of set_event_history_capacity: the new capacity is applied to
\* the transition history as well.
set_event_history_capacity_both(capacity) ==
    /\ stack = <<>> /\ Len(ops) < MaxOps
    /\ event_history' = resize_deque(capacity, event_history)
    /\ event_history_capacity' = capacity
    /\ transition_history' = resize_deque(capacity, transition_history)
    /\ transition_history_capacity' = capacity
    /\ ev_steady' = FALSE
    /\ last_op' = <<"set_event_history_capacity", capacity>>
    /\ ops' = Append(ops, <<"set_event_history_capacity", capacity>>)
    /\ UNCHANGED <<event_sent_callbacks, event_handled_callbacks,
                   transition_callbacks, tape, seen, machine_vars,
                   ev_log, tr_log, tr_steady, trace>>

\* set_event_history_capacity / set_transition_history_capacity: resize the
\* deque for the new capacity, then store the capacity.
set_event_history_capacity(capacity) ==
    /\ stack = <<>> /\ Len(ops) < MaxOps
    /\ event_history' = resize_deque(capacity, event_history)
    /\ event_history_capacity' = capacity
    /\ ev_steady' = FALSE
    /\ last_op' = <<"set_event_history_capacity", capacity>>
    /\ ops' = Append(ops, <<"set_event_history_capacity", capacity>>)
    /\ UNCHANGED <<transition_history_capacity, transition_history,
                   event_sent_callbacks, event_handled_callbacks,
                   transition_callbacks, tape, seen, machine_vars,
                   ev_log, tr_log, tr_steady, trace>>

set_transition_history_capacity(capacity) ==
    /\ stack = <<>> /\ Len(ops) < MaxOps
    /\ transition_history' = resize_deque(capacity, transition_history)
    /\ transition_history_capacity' = capacity
    /\ tr_steady' = FALSE
    /\ last_op' = <<"set_transition_history_capacity", capacity>>
    /\ ops' = Append(ops, <<"set_transition_history_capacity", capacity>>)
    /\ UNCHANGED <<event_history_capacity, event_history,
                   event_sent_callbacks, event_handled_callbacks,
                   transition_callbacks, tape, seen, machine_vars,
                   ev_log, tr_log, ev_steady, trace>>

\* Faulty variant of last_transition: reads the front of the deque.
last_transition_front ==
    IF transition_history = <<>> THEN None
    ELSE Some(transition_history[1])

\* last_transition: the back of the transition history, None if it is empty.
last_transition ==
    IF transition_history = <<>> THEN None
    ELSE Some(transition_history[Len(transition_history)])

----------------------------------------------------------------------------
\* The unit tests of event.rs: the notifications are called directly.

TestEventSent(event) ==
    /\ sm = "TestMachine" /\ Len(ops) < MaxOps
    /\ event_sent(event)
    /\ ops' = Append(ops, <<"event_sent", event>>)
    /\ UNCHANGED <<machine_vars, trace>>

TestEventHandled(event) ==
    /\ sm = "TestMachine" /\ Len(ops) < MaxOps
    /\ event_handled(event)
    /\ ops' = Append(ops, <<"event_handled", event>>)
    /\ UNCHANGED <<machine_vars, trace>>

TestTransitionOccurred(transition) ==
    /\ sm = "TestMachine" /\ Len(ops) < MaxOps
    /\ transition_occurred(transition)
    /\ ops' = Append(ops, <<"transition_occurred", transition>>)
    /\ UNCHANGED <<machine_vars, trace>>

----------------------------------------------------------------------------
\* A generated machine.  A client call of an interface method dispatches the
\* event; a dispatch sends the event, runs the handler of the current state,
\* performs the state change the handler asks for, and reports the event
\* handled.  Exit and enter events are dispatched the same way, nested in the
\* dispatch that causes them.

Top == stack[Len(stack)]
\* One entry of the trace: what happened, to what, and the current state then.
Entry(op, what) == [op |-> op, what |-> what, cur |-> state]
SetTop(frame) == [stack EXCEPT ![Len(stack)] = frame]
\* The event being dispatched once its handler has run: the handler has set
\* the return value.
Ran == [Top EXCEPT !.ret = ReturnValue(sm, Top.msg)]
\* A notification of the monitor about the event being dispatched, with the
\* return value the event carries at that moment.
Note(op) == [op |-> op, what |-> Top.msg, cur |-> state, ret |-> Top.ret]
Idle == stack = <<>>

\* An interface method (change, transit, mult, reset): build the event and
\* hand it to the dispatch loop.
\* The test-side clears of the machines' logs: Transition::clear_all and the
\* tests' sm.tape.clear() on the StateStack machine.
Clears == {"clear_all", "tape_clear"}
OnlyCalls ==
    \A i \in 1..Len(ops) : Len(ops[i]) = 1 /\ ops[i][1] \in Interface(sm) \cup Clears
Call(msg) ==
    /\ sm \in Generated /\ Idle
    /\ Len(ops) < MaxOps \/ (OnlyCalls /\ Len(ops) < MaxCalls)
    /\ msg \in Interface(sm)
    /\ stack' = <<Frame(msg)>>
    /\ trace' = <<Entry("dispatch", msg)>>
    /\ call' = [msg |-> msg, from |-> state, tape_mark |-> Len(tape),
                enters_mark |-> Len(enters), exits_mark |-> Len(exits),
                hooks_mark |-> Len(hooks),
                log_mark |-> Len(sm_tape), saved |-> state_stack,
                callbacks |-> <<Len(event_sent_callbacks),
                                Len(event_handled_callbacks),
                                Len(transition_callbacks)>>]
    /\ ops' = Append(ops, <<msg>>)
    /\ last_op' = <<"call", msg>>
    /\ UNCHANGED <<monitor_vars, tape, seen, sm, created, other_vars, instance_vars, state, enters, exits, hooks, sm_tape,
                   ev_log, tr_log, ev_steady, tr_steady>>

\* A client calls one of the public log methods of the test machines directly,
\* outside any dispatch: the logs change as the method says and nothing else
\* does.  The call is the latest client call, with no dispatch in it.
Kept == [enters |-> enters, exits |-> exits, hooks |-> hooks, sm_tape |-> sm_tape]
Direct(m, op, after) ==
    /\ sm = m /\ Idle
    /\ Len(ops) < MaxOps \/ (op[1] \in Clears /\ OnlyCalls /\ Len(ops) < MaxCalls)
    /\ enters' = after.enters
    /\ exits' = after.exits
    /\ hooks' = after.hooks
    /\ sm_tape' = after.sm_tape
    /\ trace' = <<>>
    /\ call' = [msg |-> op[1], from |-> state, tape_mark |-> Len(tape),
                enters_mark |-> Len(after.enters), exits_mark |-> Len(after.exits),
                hooks_mark |-> Len(after.hooks),
                log_mark |-> Len(after.sm_tape), saved |-> state_stack,
                callbacks |-> <<Len(event_sent_callbacks),
                                Len(event_handled_callbacks),
                                Len(transition_callbacks)>>]
    /\ ops' = Append(ops, op)
    /\ last_op' = op
    /\ UNCHANGED <<monitor_vars, tape, seen, sm, created, other_vars, instance_vars, state,
                   stack, ev_log, tr_log, ev_steady, tr_steady>>

\* The arguments a client passes to the log methods.
ClientStates == {"S0", "S1"}
ClientMessages == {"A:>"}

\* Transition::clear_all: the three logs are emptied.
clear_all ==
    Direct("Transition", <<"clear_all">>,
           [Kept EXCEPT !.enters = <<>>, !.exits = <<>>, !.hooks = <<>>])
\* Transition::enter, Transition::exit.
enter(s) == Direct("Transition", <<"enter", s>>, [Kept EXCEPT !.enters = Append(enters, s)])
exit(s) == Direct("Transition", <<"exit", s>>, [Kept EXCEPT !.exits = Append(exits, s)])
\* Transition::transition_hook, Transition::change_state_hook.
transition_hook(old_state, new_state) ==
    Direct("Transition", <<"transition_hook", old_state, new_state>>,
           [Kept EXCEPT !.hooks = Append(hooks, HookEntry("->", old_state, new_state))])
change_state_hook(old_state, new_state) ==
    Direct("Transition", <<"change_state_hook", old_state, new_state>>,
           [Kept EXCEPT !.hooks = Append(hooks, HookEntry("->>", old_state, new_state))])
\* StateStack::log, and the tests' sm.tape.clear().
log(msg) == Direct("StateStack", <<"log", msg>>, [Kept EXCEPT !.sm_tape = Append(sm_tape, msg)])
tape_clear == Direct("StateStack", <<"tape_clear">>, [Kept EXCEPT !.sm_tape = <<>>])

\* The dispatch loop notifies the monitor that the event was sent before any
\* handler logic runs.
Send ==
    /\ ~Idle /\ Top.pc = "send"
    /\ event_sent(Top.msg)
    /\ stack' = SetTop([Top EXCEPT !.pc = "run"])
    /\ trace' = Append(trace, Note("sent"))
    /\ UNCHANGED <<sm, created, other_vars, instance_vars, state, enters, exits, hooks, sm_tape, call, ops>>

\* What the handler's statement means for the state: whether it is a state
\* stack pop, whether it changes the state, whether the change runs the exit
\* and enter events, whether it fails (a pop off an empty state stack), and the
\* state instance it leads to: a newly constructed instance of the target, or
\* the instance popped off the state stack.
Pops(h) == h.kind \in {"pop_transition", "pop_change_state"}
Faults(h) == Pops(h) /\ state_stack = <<>>
Changes(h) == h.kind \in {"transition", "change_state"} \/ (Pops(h) /\ state_stack # <<>>)
\* Faulty variant of WithExit: a pop change-state runs the exit event too.
WithExit_pop_change(h) == h.kind \in {"transition", "pop_transition", "pop_change_state"}
WithExit(h) == h.kind \in {"transition", "pop_transition"}
Constructs(h) == h.kind \in {"transition", "change_state"}
Resolve(h) ==
    IF Constructs(h) THEN StateInstance(h.info.target, constructed + 1)
    ELSE state_stack[Len(state_stack)]

\* Faulty variant of Run: a pop takes the oldest entry of the state stack.
Run_pops_bottom ==
    /\ ~Idle /\ Top.pc = "run"
    /\ LET h == Handler(sm, state, Top.msg) IN
         /\ enters' = IF LogsEnter(sm, state, Top.msg) THEN Append(enters, state) ELSE enters
         /\ exits' = IF LogsExit(sm, state, Top.msg) THEN Append(exits, state) ELSE exits
         /\ sm_tape' = IF Logs(sm, state, Top.msg) THEN Append(sm_tape, Top.msg) ELSE sm_tape
         /\ constructed' = IF Constructs(h) THEN constructed + 1 ELSE constructed
         /\ state_stack' =
              IF h.kind = "push"
              THEN Append(state_stack, StateInstance(state, state_instance))
              ELSE IF Pops(h) /\ state_stack # <<>>
                   THEN Tail(state_stack)
                   ELSE state_stack
         /\ stack' =
              IF h.kind = "dispatch"
              THEN Append(SetTop([Ran EXCEPT !.pc = "handled"]), Frame(h.msg))
              ELSE IF Faults(h) THEN SetTop([Ran EXCEPT !.pc = "fault"])
              ELSE IF Changes(h)
                   THEN LET moved == SetTop([Ran EXCEPT !.pc = "swap", !.info = h.info,
                                                        !.next = IF Pops(h) THEN state_stack[1]
                                                                  ELSE Resolve(h)])
                        IN  IF WithExit(h)
                            THEN Append(moved, Frame(ExitMsg(state)))
                            ELSE moved
                   ELSE SetTop([Ran EXCEPT !.pc = "handled"])
         /\ trace' =
              IF h.kind = "dispatch" THEN Append(trace, Entry("dispatch", h.msg))
              ELSE IF Changes(h) /\ WithExit(h)
                   THEN Append(trace, Entry("dispatch", ExitMsg(state)))
                   ELSE trace
    /\ last_op' = <<"run", Top.msg>>
    /\ UNCHANGED <<monitor_vars, tape, seen, hooks, sm, created, other_vars, state_instance, state, call, ops,
                   ev_log, tr_log, ev_steady, tr_steady>>

\* Faulty variant of Run: a push saves a newly constructed instance of the
\* current state instead of the current instance.
Run_push_copies ==
    /\ ~Idle /\ Top.pc = "run"
    /\ LET h == Handler(sm, state, Top.msg) IN
         /\ enters' = IF LogsEnter(sm, state, Top.msg) THEN Append(enters, state) ELSE enters
         /\ exits' = IF LogsExit(sm, state, Top.msg) THEN Append(exits, state) ELSE exits
         /\ sm_tape' = IF Logs(sm, state, Top.msg) THEN Append(sm_tape, Top.msg) ELSE sm_tape
         /\ constructed' = IF Constructs(h) \/ h.kind = "push" THEN constructed + 1
                         ELSE constructed
         /\ state_stack' =
              IF h.kind = "push"
              THEN Append(state_stack, StateInstance(state, constructed + 1))
              ELSE IF Pops(h) /\ state_stack # <<>>
                   THEN SubSeq(state_stack, 1, Len(state_stack) - 1)
                   ELSE state_stack
         /\ stack' =
              IF h.kind = "dispatch"
              THEN Append(SetTop([Ran EXCEPT !.pc = "handled"]), Frame(h.msg))
              ELSE IF Faults(h) THEN SetTop([Ran EXCEPT !.pc = "fault"])
              ELSE IF Changes(h)
                   THEN LET moved == SetTop([Ran EXCEPT !.pc = "swap", !.info = h.info,
                                                        !.next = Resolve(h)])
                        IN  IF WithExit(h)
                            THEN Append(moved, Frame(ExitMsg(state)))
                            ELSE moved
                   ELSE SetTop([Ran EXCEPT !.pc = "handled"])
         /\ trace' =
              IF h.kind = "dispatch" THEN Append(trace, Entry("dispatch", h.msg))
              ELSE IF Changes(h) /\ WithExit(h)
                   THEN Append(trace, Entry("dispatch", ExitMsg(state)))
                   ELSE trace
    /\ last_op' = <<"run", Top.msg>>
    /\ UNCHANGED <<monitor_vars, tape, seen, hooks, sm, created, other_vars, state_instance, state, call, ops,
                   ev_log, tr_log, ev_steady, tr_steady>>

\* Faulty variant of Run: a pop off an empty state stack installs the initial
\* state instance.
Run_empty_pop_installs ==
    /\ ~Idle /\ Top.pc = "run"
    /\ LET h == Handler(sm, state, Top.msg) IN
         /\ enters' = IF LogsEnter(sm, state, Top.msg) THEN Append(enters, state) ELSE enters
         /\ exits' = IF LogsExit(sm, state, Top.msg) THEN Append(exits, state) ELSE exits
         /\ sm_tape' = IF Logs(sm, state, Top.msg) THEN Append(sm_tape, Top.msg) ELSE sm_tape
         /\ constructed' = IF Constructs(h) THEN constructed + 1 ELSE constructed
         /\ state_stack' =
              IF h.kind = "push"
              THEN Append(state_stack, StateInstance(state, state_instance))
              ELSE IF Pops(h) /\ state_stack # <<>>
                   THEN SubSeq(state_stack, 1, Len(state_stack) - 1)
                   ELSE state_stack
         /\ stack' =
              IF h.kind = "dispatch"
              THEN Append(SetTop([Ran EXCEPT !.pc = "handled"]), Frame(h.msg))
              ELSE IF Faults(h)
                   THEN SetTop([Ran EXCEPT !.pc = "swap", !.info = h.info,
                                           !.next = StateInstance(InitialState(sm), 1)])
              ELSE IF Changes(h)
                   THEN LET moved == SetTop([Ran EXCEPT !.pc = "swap", !.info = h.info,
                                                        !.next = Resolve(h)])
                        IN  IF WithExit(h)
                            THEN Append(moved, Frame(ExitMsg(state)))
                            ELSE moved
                   ELSE SetTop([Ran EXCEPT !.pc = "handled"])
         /\ trace' =
              IF h.kind = "dispatch" THEN Append(trace, Entry("dispatch", h.msg))
              ELSE IF Changes(h) /\ WithExit(h)
                   THEN Append(trace, Entry("dispatch", ExitMsg(state)))
                   ELSE trace
    /\ last_op' = <<"run", Top.msg>>
    /\ UNCHANGED <<monitor_vars, tape, seen, hooks, sm, created, other_vars, state_instance, state, call, ops,
                   ev_log, tr_log, ev_steady, tr_steady>>

\* Faulty variant of Run: a handler that changes no state does not finish, the
\* event stays with the handler.
Run_stalls ==
    /\ ~Idle /\ Top.pc = "run"
    /\ LET h == Handler(sm, state, Top.msg) IN
         /\ enters' = IF LogsEnter(sm, state, Top.msg) THEN Append(enters, state) ELSE enters
         /\ exits' = IF LogsExit(sm, state, Top.msg) THEN Append(exits, state) ELSE exits
         /\ sm_tape' = IF Logs(sm, state, Top.msg) THEN Append(sm_tape, Top.msg) ELSE sm_tape
         /\ constructed' = IF Constructs(h) THEN constructed + 1 ELSE constructed
         /\ state_stack' =
              IF h.kind = "push"
              THEN Append(state_stack, StateInstance(state, state_instance))
              ELSE IF Pops(h) /\ state_stack # <<>>
                   THEN SubSeq(state_stack, 1, Len(state_stack) - 1)
                   ELSE state_stack
         /\ stack' =
              IF h.kind = "dispatch"
              THEN Append(SetTop([Ran EXCEPT !.pc = "handled"]), Frame(h.msg))
              ELSE IF Faults(h) THEN SetTop([Ran EXCEPT !.pc = "fault"])
              ELSE IF Changes(h)
                   THEN LET moved == SetTop([Ran EXCEPT !.pc = "swap", !.info = h.info,
                                                        !.next = Resolve(h)])
                        IN  IF WithExit(h)
                            THEN Append(moved, Frame(ExitMsg(state)))
                            ELSE moved
                   ELSE SetTop(Ran)
         /\ trace' =
              IF h.kind = "dispatch" THEN Append(trace, Entry("dispatch", h.msg))
              ELSE IF Changes(h) /\ WithExit(h)
                   THEN Append(trace, Entry("dispatch", ExitMsg(state)))
                   ELSE trace
    /\ last_op' = <<"run", Top.msg>>
    /\ UNCHANGED <<monitor_vars, tape, seen, hooks, sm, created, other_vars, state_instance, state, call, ops,
                   ev_log, tr_log, ev_steady, tr_steady>>

\* handle_event: the handler of the current state runs on the event.  It logs
\* (Transition machine), and either returns, dispatches a further event, pushes
\* the current state instance on the state stack, or starts a transition
\* (whose first part is the exit event of the current state) or a change-state,
\* to a new instance of the target state or to the instance popped off the
\* state stack.  A pop off an empty state stack is a fault: the call does not
\* return.
Run ==
    /\ ~Idle /\ Top.pc = "run"
    /\ LET h == Handler(sm, state, Top.msg) IN
         /\ enters' = IF LogsEnter(sm, state, Top.msg) THEN Append(enters, state) ELSE enters
         /\ exits' = IF LogsExit(sm, state, Top.msg) THEN Append(exits, state) ELSE exits
         /\ sm_tape' = IF Logs(sm, state, Top.msg) THEN Append(sm_tape, Top.msg) ELSE sm_tape
         /\ constructed' = IF Constructs(h) THEN constructed + 1 ELSE constructed
         /\ state_stack' =
              IF h.kind = "push"
              THEN Append(state_stack, StateInstance(state, state_instance))
              ELSE IF Pops(h) /\ state_stack # <<>>
                   THEN SubSeq(state_stack, 1, Len(state_stack) - 1)
                   ELSE state_stack
         /\ stack' =
              IF h.kind = "dispatch"
              THEN Append(SetTop([Ran EXCEPT !.pc = "handled"]), Frame(h.msg))
              ELSE IF Faults(h) THEN SetTop([Ran EXCEPT !.pc = "fault"])
              ELSE IF Changes(h)
                   THEN LET moved == SetTop([Ran EXCEPT !.pc = "swap", !.info = h.info,
                                                        !.next = Resolve(h)])
                        IN  IF WithExit(h)
                            THEN Append(moved, Frame(ExitMsg(state)))
                            ELSE moved
                   ELSE SetTop([Ran EXCEPT !.pc = "handled"])
         /\ trace' =
              IF h.kind = "dispatch" THEN Append(trace, Entry("dispatch", h.msg))
              ELSE IF Changes(h) /\ WithExit(h)
                   THEN Append(trace, Entry("dispatch", ExitMsg(state)))
                   ELSE trace
    /\ last_op' = <<"run", Top.msg>>
    /\ UNCHANGED <<monitor_vars, tape, seen, hooks, sm, created, other_vars, state_instance, state, call, ops,
                   ev_log, tr_log, ev_steady, tr_steady>>

\* Faulty variant of Swap: the notification is prepared without the current
\* state having been replaced.
Swap_keeps_old ==
    /\ ~Idle /\ Top.pc = "swap"
    /\ state' = state
    /\ state_instance' = state_instance
    /\ hooks' = Hooked(Top.info.kind, state, Top.next.name)
    /\ stack' = SetTop([Top EXCEPT !.pc = "notify", !.old_state = state])
    /\ trace' = Append(trace, [op |-> "swap", what |-> Top.next.name, cur |-> state'])
    /\ last_op' = <<"swap", Top.next.name>>
    /\ UNCHANGED <<monitor_vars, tape, seen, sm, created, other_vars, constructed, state_stack,
                   enters, exits, sm_tape, call, ops, ev_log, tr_log, ev_steady, tr_steady>>

\* Faulty variant of Swap: only a transition calls its hook, a change-state
\* calls none.
Swap_change_unhooked ==
    /\ ~Idle /\ Top.pc = "swap"
    /\ state' = Top.next.name
    /\ state_instance' = Top.next.id
    /\ hooks' = IF Top.info.kind = "Transition"
                THEN Hooked(Top.info.kind, state, Top.next.name)
                ELSE hooks
    /\ stack' = SetTop([Top EXCEPT !.pc = "notify", !.old_state = state])
    /\ trace' = Append(trace, [op |-> "swap", what |-> Top.next.name, cur |-> state'])
    /\ last_op' = <<"swap", Top.next.name>>
    /\ UNCHANGED <<monitor_vars, tape, seen, sm, created, other_vars, constructed, state_stack,
                   enters, exits, sm_tape, call, ops, ev_log, tr_log, ev_steady, tr_steady>>

\* Faulty variant of Swap: a popped state is installed as a newly constructed
\* instance of the same state.
Swap_constructs_anew ==
    /\ ~Idle /\ Top.pc = "swap"
    /\ state' = Top.next.name
    /\ state_instance' = constructed + 1
    /\ hooks' = Hooked(Top.info.kind, state, Top.next.name)
    /\ stack' = SetTop([Top EXCEPT !.pc = "notify", !.old_state = state])
    /\ trace' = Append(trace, [op |-> "swap", what |-> Top.next.name, cur |-> state'])
    /\ last_op' = <<"swap", Top.next.name>>
    /\ UNCHANGED <<monitor_vars, tape, seen, sm, created, other_vars, constructed, state_stack,
                   enters, exits, sm_tape, call, ops, ev_log, tr_log, ev_steady, tr_steady>>

\* transition / change_state, "update state": the state instance the handler
\* resolved becomes current; the old state is kept for the notification.
Swap ==
    /\ ~Idle /\ Top.pc = "swap"
    /\ state' = Top.next.name
    /\ state_instance' = Top.next.id
    /\ hooks' = Hooked(Top.info.kind, state, Top.next.name)
    /\ stack' = SetTop([Top EXCEPT !.pc = "notify", !.old_state = state])
    /\ trace' = Append(trace, [op |-> "swap", what |-> Top.next.name, cur |-> state'])
    /\ last_op' = <<"swap", Top.next.name>>
    /\ UNCHANGED <<monitor_vars, tape, seen, sm, created, other_vars, constructed, state_stack,
                   enters, exits, sm_tape, call, ops, ev_log, tr_log, ev_steady, tr_steady>>

\* Faulty variant of Notify: the enter event of the new state is dispatched
\* after a change-state as well.
Notify_always_enters ==
    /\ ~Idle /\ Top.pc = "notify"
    /\ transition_occurred(TransitionInstance(Top.info, Top.old_state, state))
    /\ stack' = Append(SetTop([Top EXCEPT !.pc = "handled"]), Frame(EnterMsg(state)))
    /\ trace' = Append(Append(trace, Entry("transition",
                           TransitionInstance(Top.info, Top.old_state, state))),
                       Entry("dispatch", EnterMsg(state)))
    /\ UNCHANGED <<sm, created, other_vars, instance_vars, state, enters, exits, hooks, sm_tape, call, ops>>

\* Faulty variant of Notify: the old and the new state instance are passed in
\* each other's place.
Notify_swapped_states ==
    /\ ~Idle /\ Top.pc = "notify"
    /\ transition_occurred(TransitionInstance(Top.info, state, Top.old_state))
    /\ stack' =
         IF Top.info.kind = "Transition"
         THEN Append(SetTop([Top EXCEPT !.pc = "handled"]), Frame(EnterMsg(state)))
         ELSE SetTop([Top EXCEPT !.pc = "handled"])
    /\ trace' =
         LET told == Append(trace, Entry("transition",
                                         TransitionInstance(Top.info, state, Top.old_state)))
         IN  IF Top.info.kind = "Transition"
             THEN Append(told, Entry("dispatch", EnterMsg(state)))
             ELSE told
    /\ UNCHANGED <<sm, created, other_vars, instance_vars, state, enters, exits, hooks, sm_tape, call, ops>>

\* Faulty variant of Notify: no enter event is dispatched when the transition
\* restores a state popped off the state stack.
Notify_pop_skips_enter ==
    /\ ~Idle /\ Top.pc = "notify"
    /\ transition_occurred(TransitionInstance(Top.info, Top.old_state, state))
    /\ stack' =
         IF Top.info.kind = "Transition" /\ Top.info.target # PopPlaceholder
         THEN Append(SetTop([Top EXCEPT !.pc = "handled"]), Frame(EnterMsg(state)))
         ELSE SetTop([Top EXCEPT !.pc = "handled"])
    /\ trace' =
         LET told == Append(trace, Entry("transition",
                                         TransitionInstance(Top.info, Top.old_state, state)))
         IN  IF Top.info.kind = "Transition" /\ Top.info.target # PopPlaceholder
             THEN Append(told, Entry("dispatch", EnterMsg(state)))
             ELSE told
    /\ UNCHANGED <<sm, created, other_vars, instance_vars, state, enters, exits, hooks, sm_tape, call, ops>>

\* Faulty variant of Notify: the notification carries a running number in
\* place of the id of the declared transition.
Notify_running_id ==
    /\ ~Idle /\ Top.pc = "notify"
    /\ transition_occurred(TransitionInstance([Top.info EXCEPT !.id = Len(tr_log)],
                                  Top.old_state, state))
    /\ stack' =
         IF Top.info.kind = "Transition"
         THEN Append(SetTop([Top EXCEPT !.pc = "handled"]), Frame(EnterMsg(state)))
         ELSE SetTop([Top EXCEPT !.pc = "handled"])
    /\ trace' =
         LET told == Append(trace, Entry("transition",
                                         TransitionInstance([Top.info EXCEPT !.id = Len(tr_log)],
                                  Top.old_state, state)))
         IN  IF Top.info.kind = "Transition"
             THEN Append(told, Entry("dispatch", EnterMsg(state)))
             ELSE told
    /\ UNCHANGED <<sm, created, other_vars, instance_vars, state, enters, exits, hooks, sm_tape, call, ops>>

\* transition / change_state, "call transition callbacks": the monitor is told
\* of the transition; a transition then dispatches the enter event of the new
\* state, a change-state does not.
\* Faulty variant of Notify: a change-state is not notified to the monitor.
Notify_change_unnotified ==
    /\ ~Idle /\ Top.pc = "notify"
    /\ IF Top.info.kind = "Transition"
       THEN transition_occurred(TransitionInstance(Top.info, Top.old_state, state))
       ELSE UNCHANGED <<monitor_vars, tape, seen, ev_log, tr_log, ev_steady, tr_steady,
                        last_op>>
    /\ stack' =
         IF Top.info.kind = "Transition"
         THEN Append(SetTop([Top EXCEPT !.pc = "handled"]), Frame(EnterMsg(state)))
         ELSE SetTop([Top EXCEPT !.pc = "handled"])
    /\ trace' =
         LET told == Append(trace, Entry("transition",
                                         TransitionInstance(Top.info, Top.old_state, state)))
         IN  IF Top.info.kind = "Transition"
             THEN Append(told, Entry("dispatch", EnterMsg(state)))
             ELSE told
    /\ UNCHANGED <<sm, created, other_vars, instance_vars, state, enters, exits, hooks, sm_tape, call, ops>>

\* Faulty variant of Notify: the enter event of the new state is dispatched
\* once the event that caused the transition has been handled, not nested in it.
Notify_enter_after_return ==
    /\ ~Idle /\ Top.pc = "notify"
    /\ transition_occurred(TransitionInstance(Top.info, Top.old_state, state))
    /\ stack' =
         IF Top.info.kind = "Transition"
         THEN Append(SetTop(Frame(EnterMsg(state))), [Top EXCEPT !.pc = "handled"])
         ELSE SetTop([Top EXCEPT !.pc = "handled"])
    /\ trace' =
         LET told == Append(trace, Entry("transition",
                                         TransitionInstance(Top.info, Top.old_state, state)))
         IN  IF Top.info.kind = "Transition"
             THEN Append(told, Entry("dispatch", EnterMsg(state)))
             ELSE told
    /\ UNCHANGED <<sm, created, other_vars, instance_vars, state, enters, exits, hooks, sm_tape, call, ops>>

Notify ==
    /\ ~Idle /\ Top.pc = "notify"
    /\ transition_occurred(TransitionInstance(Top.info, Top.old_state, state))
    /\ stack' =
         IF Top.info.kind = "Transition"
         THEN Append(SetTop([Top EXCEPT !.pc = "handled"]), Frame(EnterMsg(state)))
         ELSE SetTop([Top EXCEPT !.pc = "handled"])
    /\ trace' =
         LET told == Append(trace, Entry("transition",
                                         TransitionInstance(Top.info, Top.old_state, state)))
         IN  IF Top.info.kind = "Transition"
             THEN Append(told, Entry("dispatch", EnterMsg(state)))
             ELSE told
    /\ UNCHANGED <<sm, created, other_vars, instance_vars, state, enters, exits, hooks, sm_tape, call, ops>>

\* The dispatch loop notifies the monitor that the event was handled after
\* everything the event caused has completed, and returns.
Handled ==
    /\ ~Idle /\ Top.pc = "handled"
    /\ event_handled(Top.msg)
    /\ stack' = SubSeq(stack, 1, Len(stack) - 1)
    /\ trace' = Append(trace, Note("handled"))
    /\ UNCHANGED <<sm, created, other_vars, instance_vars, state, enters, exits, hooks, sm_tape, call, ops>>

----------------------------------------------------------------------------
\* The system after construction.  The unit tests build the monitor with
\* EventMonitor::new(event_capacity, transition_capacity); a generated machine
\* builds its own and new() ends by dispatching the enter event of the initial
\* state (initialize).  Whether that first dispatch goes through the monitor
\* is decided by the generated code: the only test of it is not run, and
\* Demo::initialize, the one constructor at hand, reports to no monitor.  Both
\* are possible here: either the initial enter event is about to be sent
\* through the monitor, or its handler has run unreported and new() has
\* returned.
InitialDispatches(m) == IF m \in Generated THEN {"reported", "unreported"} ELSE {"none"}

Init ==
    /\ sm \in Machines
    /\ \E built \in Constructions :
         created = IF sm = "TestMachine" THEN built
                   ELSE <<InitialCapacities(sm)[1], InitialCapacities(sm)[2], Constructor(sm)>>
    /\ event_history_capacity = created[1]
    /\ transition_history_capacity = created[2]
    /\ event_history = new_deque(event_history_capacity)
    /\ transition_history = new_deque(transition_history_capacity)
    /\ event_sent_callbacks = <<>>
    /\ event_handled_callbacks = <<>>
    /\ transition_callbacks = <<>>
    /\ tape = <<>>
    /\ seen = <<>>
    /\ state = InitialState(sm)
    /\ state_instance = IF sm \in Generated THEN 1 ELSE 0
    /\ constructed = IF sm \in Generated THEN 1 ELSE 0
    /\ state_stack = <<>>
    /\ \E initial \in InitialDispatches(sm) :
         LET s0 == InitialState(sm)
             unreported == initial = "unreported"
         IN  /\ stack = IF initial = "reported" THEN <<Frame(EnterMsg(s0))>> ELSE <<>>
             /\ trace = IF initial = "reported"
                        THEN <<Entry("dispatch", EnterMsg(s0))>>
                        ELSE <<>>
             /\ enters = IF unreported /\ LogsEnter(sm, s0, EnterMsg(s0))
                         THEN <<s0>> ELSE <<>>
             /\ sm_tape = IF unreported /\ Logs(sm, s0, EnterMsg(s0))
                          THEN <<EnterMsg(s0)>> ELSE <<>>
    /\ exits = <<>>
    /\ hooks = <<>>
    /\ call = [msg |-> "new", from |-> InitialState(sm), tape_mark |-> 0,
               enters_mark |-> 0, exits_mark |-> 0, hooks_mark |-> 0, log_mark |-> 0,
               saved |-> <<>>,
               callbacks |-> <<0, 0, 0>>]
    /\ ev_log = <<>>
    /\ tr_log = <<>>
    /\ ev_steady = TRUE
    /\ tr_steady = TRUE
    /\ last_op = <<"new">>
    /\ ops = <<>>
    /\ build = NoProgram
    /\ build_result = NoProgram
    /\ demo = NoProgram

Next ==
    \/ add_event_sent_callback
    \/ add_event_handled_callback
    \/ add_transition_callback
    \/ clear_event_history
    \/ clear_transition_history
    \/ \E capacity \in NewCapacities : set_event_history_capacity(capacity)
    \/ \E capacity \in NewCapacities : set_transition_history_capacity(capacity)
    \/ \E event \in TestEvents : TestEventSent(event)
    \/ \E event \in TestEvents : TestEventHandled(event)
    \/ \E transition \in TestTransitions : TestTransitionOccurred(transition)
    \/ \E msg \in UNION {Interface(m) : m \in Generated} : Call(msg)
    \/ clear_all
    \/ \E s \in ClientStates : enter(s)
    \/ \E s \in ClientStates : exit(s)
    \/ \E old_state \in ClientStates, new_state \in ClientStates :
          transition_hook(old_state, new_state)
    \/ \E old_state \in ClientStates, new_state \in ClientStates :
          change_state_hook(old_state, new_state)
    \/ \E msg \in ClientMessages : log(msg)
    \/ tape_clear
    \/ Send
    \/ Run
    \/ Swap
    \/ Notify
    \/ Handled

Spec == Init /\ [][Next]_vars

\* A dispatch is an ordinary call that runs to completion: there is one thread
\* of control and no suspension point, so a dispatch in progress takes its next
\* step.  The client is under no obligation to call anything.
Dispatching == Send \/ Run \/ Swap \/ Notify \/ Handled
LiveSpec == Spec /\ WF_vars(Dispatching)

\* No monitored machine: the state of the monitor and machine variables while
\* one of the other two programs runs.
Unmonitored ==
    /\ event_history_capacity = None /\ transition_history_capacity = None
    /\ created = <<None, None, "none">>
    /\ event_history = <<>> /\ transition_history = <<>>
    /\ event_sent_callbacks = <<>> /\ event_handled_callbacks = <<>>
    /\ transition_callbacks = <<>>
    /\ tape = <<>>
    /\ seen = <<>>
    /\ state = "" /\ state_instance = 0 /\ constructed = 0
    /\ state_stack = <<>> /\ stack = <<>>
    /\ enters = <<>> /\ exits = <<>> /\ hooks = <<>> /\ sm_tape = <<>>
    /\ call = [msg |-> "none"]
    /\ ev_log = <<>> /\ tr_log = <<>>
    /\ ev_steady = TRUE /\ tr_steady = TRUE
    /\ trace = <<>>

----------------------------------------------------------------------------
\* The build process of frame_build (lib.rs): a FrameBuild is configured by
\* chained calls and run() walks the input directory, hands every accepted
\* .frm file to Framec once per target language and writes what Framec
\* returns.  The directory walk (walkdir), Framec and the file system are
\* outside the repository: the walk is described by what it yields, Framec and
\* the file system by the outcomes they can have.

\* usize::MAX, the default maximum depth: beyond every depth of a directory.
UsizeMax == 2147483647

Languages == {"Rust", "Smcat"}
Paths == {"tests"}
\* FrameBuild::new
FrameBuildNew ==
    [frame_config |-> None, input_dir |-> "src", output_dir |-> "OUT_DIR",
     targets |-> <<"Rust">>, input_filter |-> "all",
     max_depth |-> UsizeMax, min_depth |-> 0,
     follow_links |-> FALSE, continue_on_error |-> FALSE]

\* The input directory, as the walk meets its entries: the directory itself at
\* depth 0, two files and a subdirectory in it, a file in the subdirectory.
Tree ==
    <<[name |-> ".", depth |-> 0, frm |-> FALSE],
      [name |-> "a", depth |-> 1, frm |-> TRUE],
      [name |-> "notes", depth |-> 1, frm |-> FALSE],
      [name |-> "sub", depth |-> 1, frm |-> FALSE],
      [name |-> "sub/c", depth |-> MaxDepth, frm |-> TRUE]>>
FrmNames == {Tree[i].name : i \in {j \in 1..Len(Tree) : Tree[j].frm}}
\* The filters a build script installs: every path, or the paths outside sub.
Filters == {"all", "no_sub"}
input_filter(filter, name) == filter = "all" \/ name # "sub/c"

\* What Framec does with a file for a target: returns the output, returns an
\* error, or panics.
FramecOutcomes == {"ok", "err", "panic"}
\* The file system operation that fails during a run, if any: reading a
\* directory entry, creating the output directory of a file, writing an
\* output file.
IoFaults(walked, accepted, compiled) ==
    {None} \cup {<<"walk", n>> : n \in walked}
           \cup {<<"mkdir", n>> : n \in accepted}
           \cup {<<"write", p[1], p[2]>> : p \in compiled}

\* WalkDir::new(dir).max_depth(max).min_depth(min): the entries whose depth is
\* within the two bounds, a minimum above the maximum being lowered to it.
WalkDir(max, min) ==
    LET low == IF min > max THEN max ELSE min
        within(e) == low <= e.depth /\ e.depth <= max
    IN  SelectSeq(Tree, within)

\* The entries a run of this configuration meets, and the (file, target) pairs
\* it hands to Framec if nothing stops it.
Walked(self) ==
    LET walk_dir == WalkDir(self.max_depth, self.min_depth)
    IN  {walk_dir[i].name : i \in 1..Len(walk_dir)}
\* The Frame files among them that pass the filter: run creates the output
\* directory of each before it takes the targets.
Accepted(self) ==
    {n \in Walked(self) \cap FrmNames : input_filter(self.input_filter, n)}
Compiled(self) ==
    Accepted(self) \X {self.targets[j] : j \in 1..Len(self.targets)}

\* What a run has done so far: the files it generated, the calls of Framec it
\* made with their outcomes, and the file system operation that failed.
Started == [files |-> <<>>, framec_calls |-> <<>>, io_error |-> None]
Halt(done) == [halt |-> TRUE] @@ done
Go(done) == [halt |-> FALSE] @@ done

\* Faulty variant of compile_targets: a panic of Framec halts the run even
\* when errors are to be skipped.
RECURSIVE compile_targets_panic_halts(_, _, _, _, _, _)
compile_targets_panic_halts(self, framec, io, name, j, done) ==
    IF j > Len(self.targets) THEN Go(done)
    ELSE LET target == self.targets[j]
             target_output_path == <<self.output_dir, name, target>>
             called == [done EXCEPT !.framec_calls =
                            Append(@, <<name, target, framec[<<name, target>>]>>)]
         IN  IF framec[<<name, target>>] = "ok"
             THEN IF io = <<"write", name, target>>
                  THEN Halt([called EXCEPT !.io_error = io])
                  ELSE compile_targets_panic_halts(self, framec, io, name, j + 1,
                           [called EXCEPT !.files = Append(@, target_output_path)])
             ELSE IF self.continue_on_error /\ framec[<<name, target>>] = "err"
                  THEN compile_targets_panic_halts(self, framec, io, name, j + 1, called)
                  ELSE Halt(called)

\* run, the loop over the targets of one file from the j-th on; halt tells
\* that run returns an error.
RECURSIVE compile_targets(_, _, _, _, _, _)
compile_targets(self, framec, io, name, j, done) ==
    IF j > Len(self.targets) THEN Go(done)
    ELSE LET target == self.targets[j]
             target_output_path == <<self.output_dir, name, target>>
             called == [done EXCEPT !.framec_calls =
                            Append(@, <<name, target, framec[<<name, target>>]>>)]
         IN  IF framec[<<name, target>>] = "ok"
             THEN IF io = <<"write", name, target>>
                  THEN Halt([called EXCEPT !.io_error = io])
                  ELSE compile_targets(self, framec, io, name, j + 1,
                           [called EXCEPT !.files = Append(@, target_output_path)])
             ELSE IF self.continue_on_error
                  THEN compile_targets(self, framec, io, name, j + 1, called)
                  ELSE Halt(called)

\* run, the loop over the entries of the walk from the i-th on.
RECURSIVE walk_entries(_, _, _, _, _, _)
walk_entries(self, framec, io, walk_dir, i, done) ==
    IF i > Len(walk_dir) THEN Go(done)
    ELSE LET entry == walk_dir[i] IN
         IF io = <<"walk", entry.name>> THEN Halt([done EXCEPT !.io_error = io])
         ELSE IF entry.frm /\ input_filter(self.input_filter, entry.name)
              THEN IF io = <<"mkdir", entry.name>>
                   THEN Halt([done EXCEPT !.io_error = io])
                   ELSE LET file == compile_targets(self, framec, io, entry.name, 1, done)
                        IN  IF file.halt THEN file
                            ELSE walk_entries(self, framec, io, walk_dir, i + 1,
                                              [f \in DOMAIN done |-> file[f]])
              ELSE walk_entries(self, framec, io, walk_dir, i + 1, done)

\* A build script is a chain of calls; run borrows the FrameBuild, which stays
\* usable after it.
Configuring == sm = "FrameBuild" /\ Len(ops) < MaxBuildCalls

\* The output files on disk once the files of a run are written: a file
\* written again replaces itself.
RECURSIVE OnDisk(_, _)
OnDisk(disk, files) ==
    IF files = <<>> THEN disk
    ELSE OnDisk(IF \E i \in 1..Len(disk) : disk[i] = Head(files)
                THEN disk ELSE Append(disk, Head(files)),
                Tail(files))
\* No run yet.
NotRun == [ret |-> "none", generated_files |-> <<>>, written |-> <<>>,
           framec_calls |-> <<>>, io_error |-> None]

\* A call of a FrameBuild method: the configuration after it.
Configure(name, arg, after) ==
    /\ Configuring
    /\ build' = after
    /\ last_op' = <<name, arg>>
    /\ ops' = Append(ops, <<name, arg>>)
    /\ UNCHANGED <<build_result, demo, monitored_vars>>

frame_config(path) == Configure("frame_config", path, [build EXCEPT !.frame_config = Some(path)])
input_dir(path) == Configure("input_dir", path, [build EXCEPT !.input_dir = path])
output_dir(path) == Configure("output_dir", path, [build EXCEPT !.output_dir = path])
set_targets(targets) == Configure("set_targets", targets, [build EXCEPT !.targets = targets])
add_target(target) ==
    Configure("add_target", target, [build EXCEPT !.targets = Append(@, target)])
include_only_if(filter) ==
    Configure("include_only_if", filter, [build EXCEPT !.input_filter = filter])
max_depth(depth) == Configure("max_depth", depth, [build EXCEPT !.max_depth = depth])
\* min_depth assigns its argument to self.max_depth.
min_depth(depth) == Configure("min_depth", depth, [build EXCEPT !.max_depth = depth])
follow_links == Configure("follow_links", TRUE, [build EXCEPT !.follow_links = TRUE])
continue_on_error ==
    Configure("continue_on_error", TRUE, [build EXCEPT !.continue_on_error = TRUE])

\* run: Ok with the generated files, or Err.  Kept with the result: the output
\* files on disk, the calls of Framec made and the file system error met.
run(framec, io) ==
    /\ Configuring
    /\ LET walk_dir == WalkDir(build.max_depth, build.min_depth)
           done == walk_entries(build, framec, io, walk_dir, 1, Started)
       IN  build_result' = [ret |-> IF done.halt THEN "Err" ELSE "Ok",
                            generated_files |-> IF done.halt THEN <<>> ELSE done.files,
                            written |-> OnDisk(build_result.written, done.files),
                            framec_calls |-> done.framec_calls,
                            io_error |-> done.io_error]
    /\ last_op' = <<"run">>
    /\ ops' = Append(ops, <<"run">>)
    /\ UNCHANGED <<build, demo, monitored_vars>>

BuildInit ==
    /\ sm = "FrameBuild"
    /\ build = FrameBuildNew
    /\ build_result = NotRun
    /\ demo = NoProgram
    /\ last_op = <<"new">>
    /\ ops = <<>>
    /\ Unmonitored

BuildNext ==
    \/ \E path \in {"config.yaml"} : frame_config(path)
    \/ \E path \in Paths : input_dir(path)
    \/ \E path \in Paths : output_dir(path)
    \/ \E targets \in {<<>>, <<"Smcat", "Rust">>} : set_targets(targets)
    \/ \E target \in Languages : add_target(target)
    \/ \E filter \in Filters : include_only_if(filter)
    \/ \E depth \in 0..MaxDepth : max_depth(depth)
    \/ \E depth \in 0..MaxDepth : min_depth(depth)
    \/ follow_links
    \/ continue_on_error
    \/ \E framec \in [Compiled(build) -> FramecOutcomes],
          io \in IoFaults(Walked(build), Accepted(build), Compiled(build)) :
         run(framec, io)

BuildSpec == BuildInit /\ [][BuildNext]_vars

----------------------------------------------------------------------------
\* The Demo machine (src/frame_runtime/tests/demo.rs): hand-written code in
\* the shape of a generated machine.  The handlers call transition and
\* change_state, which call the handlers again, so the whole of a client call
\* is computed by mutually recursive operators on the Demo struct.

MaxDemoCalls == 4

I32Max == 2147483647
I32Min == -I32Max - 1
\* The arguments the client passes to inc.
IncArguments == {1, I32Max}

\* Whether a + b leaves the range of i32, and the wrapped sum.
Overflows(a, b) == IF b >= 0 THEN a > I32Max - b ELSE a < I32Min - b
wrapping_add(a, b) ==
    IF ~Overflows(a, b) THEN a + b
    ELSE IF b >= 0 THEN (a - I32Max - 1) + (b - I32Max - 1)
         ELSE (a + I32Max + 1) + (b + I32Max + 1)

\* FrameEventArgs and its coercions, FrameEventReturn, FrameEvent::new.
NoArgs == [variant |-> "None"]
IncArgs(arg) == [variant |-> "Inc", arg |-> arg]
FooEnterArgs(init) == [variant |-> "FooEnter", init |-> init]
FooExitArgs(done) == [variant |-> "FooExit", done |-> done]
BarEnterArgs(start) == [variant |-> "BarEnter", start |-> start]
FrameEvent(message, arguments) == [message |-> message, arguments |-> arguments, ret |-> None]

\* The variants of StateContext.
InitStateContext == [variant |-> "Init"]
FooStateContext(x) == [variant |-> "Foo", x |-> x]
BarStateContext(tilt, y) == [variant |-> "Bar", tilt |-> tilt, y |-> y]

\* A panic: the call unwinds, the struct is left as it stands.
NoFault == "none"
AddOverflow == "attempt to add with overflow"
BadReturn == "Bad return value for inc"
Panic(self, message) == [self EXCEPT !.fault = message]
\* What a handler or a callback finds on entry: the state tag and the variant
\* of the state context.
Observe(self, by) ==
    [self EXCEPT !.observed = Append(@, [by |-> by, state |-> self.state,
                                         context |-> self.state_context.variant])]
\* A handler's result: the struct and the event's return value.
Done(self, ret) == [self |-> self, ret |-> ret]

\* An addition of the handlers: in a build with overflow checks an overflow
\* panics, otherwise the sum wraps.
Adds(self, a, b) == ~(self.overflow_checks /\ Overflows(a, b))

RECURSIVE handle_event(_, _)
RECURSIVE transition(_, _, _, _, _)

\* Faulty variant of change_state: the state tag is updated, the state
\* context is not.
change_state_keeps_context(self, new_state, new_state_context) ==
    Observe([self EXCEPT !.state = new_state], "callback")

\* Demo::change_state: update the state and its context, call the callbacks.
change_state(self, new_state, new_state_context) ==
    Observe([self EXCEPT !.state = new_state, !.state_context = new_state_context],
            "callback")

\* Demo::init_handler: the enter event starts the transition to Foo.
init_handler(self, frame_event) ==
    IF self.state_context.variant # "Init"
    THEN Done(Panic(self, "Failed conversion to InitStateContext"), frame_event.ret)
    ELSE IF frame_event.message = "Enter"
         THEN Done(transition(self, NoArgs, FooEnterArgs(2), "Foo", FooStateContext(0)),
                   frame_event.ret)
         ELSE Done(self, frame_event.ret)

\* Demo::foo_handler.
foo_handler(self, frame_event) ==
    IF self.state_context.variant # "Foo"
    THEN Done(Panic(self, "Failed conversion to FooStateContext"), frame_event.ret)
    ELSE LET x == self.state_context.x
             arguments == frame_event.arguments
         IN  CASE frame_event.message = "Enter" ->
                    IF arguments.variant # "FooEnter"
                    THEN Done(Panic(self, "Failed conversion to FooEnterArgs"), frame_event.ret)
                    ELSE Done([self EXCEPT !.state_context.x = arguments.init],
                              frame_event.ret)
               [] frame_event.message = "Exit" -> Done(self, frame_event.ret)
               [] frame_event.message = "Inc" ->
                    IF arguments.variant # "Inc"
                    THEN Done(Panic(self, "Failed conversion to IncArgs"), frame_event.ret)
                    ELSE IF ~Adds(self, x, arguments.arg)
                         THEN Done(Panic(self, AddOverflow), frame_event.ret)
                         ELSE LET sum == wrapping_add(x, arguments.arg)
                              IN  Done([self EXCEPT !.state_context.x = sum], Some(sum))
               [] OTHER ->
                    IF ~Adds(self, self.x, x)
                    THEN Done(Panic(self, AddOverflow), frame_event.ret)
                    ELSE Done(transition([self EXCEPT !.x = wrapping_add(self.x, x)],
                                         FooExitArgs(x), BarEnterArgs(3), "Bar",
                                         BarStateContext(4, 0)),
                              frame_event.ret)

\* Demo::bar_handler.
bar_handler(self, frame_event) ==
    IF self.state_context.variant # "Bar"
    THEN Done(Panic(self, "Failed conversion to BarStateContext"), frame_event.ret)
    ELSE LET y == self.state_context.y
             arguments == frame_event.arguments
         IN  CASE frame_event.message = "Enter" ->
                    IF arguments.variant # "BarEnter"
                    THEN Done(Panic(self, "Failed conversion to BarEnterArgs"), frame_event.ret)
                    ELSE IF ~Adds(self, arguments.start, self.state_context.tilt)
                         THEN Done(Panic(self, AddOverflow), frame_event.ret)
                         ELSE Done([self EXCEPT !.state_context.y =
                                        wrapping_add(arguments.start, self.state_context.tilt)],
                                   frame_event.ret)
               [] frame_event.message = "Exit" -> Done(self, frame_event.ret)
               [] frame_event.message = "Inc" ->
                    IF arguments.variant # "Inc"
                    THEN Done(Panic(self, "Failed conversion to IncArgs"), frame_event.ret)
                    ELSE IF ~Adds(self, y, arguments.arg)
                         THEN Done(Panic(self, AddOverflow), frame_event.ret)
                         ELSE LET sum == wrapping_add(y, arguments.arg)
                              IN  Done([self EXCEPT !.state_context.y = sum], Some(sum))
               [] OTHER ->
                    IF ~Adds(self, self.y, y)
                    THEN Done(Panic(self, AddOverflow), frame_event.ret)
                    ELSE Done(change_state([self EXCEPT !.y = wrapping_add(self.y, y)],
                                           "Foo", FooStateContext(0)),
                              frame_event.ret)

\* Demo::handle_event: the handler of the state tag.
handle_event(self, frame_event) ==
    LET found == Observe(self, frame_event.message)
    IN  CASE self.state = "Init" -> init_handler(found, frame_event)
          [] self.state = "Foo" -> foo_handler(found, frame_event)
          [] OTHER -> bar_handler(found, frame_event)

\* Demo::transition: exit event for the old state, update of the state and its
\* context, callbacks, enter event for the new state.
transition(self, exit_args, enter_args, new_state, new_state_context) ==
    LET exited == handle_event(self, FrameEvent("Exit", exit_args)).self
        updated == Observe([exited EXCEPT !.state = new_state,
                                          !.state_context = new_state_context],
                           "callback")
    IN  IF exited.fault # NoFault THEN exited
        ELSE handle_event(updated, FrameEvent("Enter", enter_args)).self

\* Demo::new followed by Demo::initialize, in a build with or without
\* overflow checks.
DemoNew(overflow_checks) ==
    handle_event([state |-> "Init", state_context |-> InitStateContext, x |-> 0, y |-> 0,
                  fault |-> NoFault, observed |-> <<>>,
                  overflow_checks |-> overflow_checks],
                 FrameEvent("Enter", NoArgs)).self

DemoRunning == sm = "Demo" /\ demo.fault = NoFault /\ Len(ops) < MaxDemoCalls

\* Demo::initialize, called by a client on the constructed machine: dispatch
\* the enter event with no arguments.
initialize ==
    /\ DemoRunning
    /\ demo' = handle_event([demo EXCEPT !.observed = <<>>], FrameEvent("Enter", NoArgs)).self
    /\ last_op' = <<"initialize">>
    /\ ops' = Append(ops, <<"initialize">>)
    /\ UNCHANGED <<build, build_result, monitored_vars>>

\* Demo::inc: dispatch the Inc event and take its return value.
inc(arg) ==
    /\ DemoRunning
    /\ LET handled == handle_event([demo EXCEPT !.observed = <<>>],
                                   FrameEvent("Inc", IncArgs(arg)))
       IN  /\ demo' = IF handled.self.fault = NoFault /\ handled.ret = None
                      THEN Panic(handled.self, BadReturn)
                      ELSE handled.self
           /\ last_op' = <<"inc", arg, handled.ret>>
    /\ ops' = Append(ops, <<"inc", arg>>)
    /\ UNCHANGED <<build, build_result, monitored_vars>>

\* Demo::next: dispatch the Next event.
next ==
    /\ DemoRunning
    /\ demo' = handle_event([demo EXCEPT !.observed = <<>>], FrameEvent("Next", NoArgs)).self
    /\ last_op' = <<"next">>
    /\ ops' = Append(ops, <<"next">>)
    /\ UNCHANGED <<build, build_result, monitored_vars>>

DemoInit ==
    /\ sm = "Demo"
    /\ \E overflow_checks \in BOOLEAN : demo = DemoNew(overflow_checks)
    /\ build = NoProgram
    /\ build_result = NoProgram
    /\ last_op = <<"new">>
    /\ ops = <<>>
    /\ Unmonitored

DemoNext ==
    \/ initialize
    \/ \E arg \in IncArguments : inc(arg)
    \/ next

DemoSpec == DemoInit /\ [][DemoNext]_vars


----------------------------------------------------------------------------
\* Properties of the histories.

Min(a, b) == IF a < b THEN a ELSE b
\* The newest n entries of a log, oldest first.
Newest(entries, n) == SubSeq(entries, Len(entries) - Min(Len(entries), n) + 1, Len(entries))
Finite(capacity) == capacity # None

\* C6: in every reachable state a history whose capacity is Some(n) holds at
\* most n entries, whatever notifications, clears and capacity changes led
\* there.
C6_HistoryWithinCapacity ==
    /\ Finite(event_history_capacity) =>
           Len(event_history) <= event_history_capacity[1]
    /\ Finite(transition_history_capacity) =>
           Len(transition_history) <= transition_history_capacity[1]

\* A capacity was lowered below the number of entries recorded, and the
\* history is full at the new capacity.
C6_Witness ==
    /\ last_op = <<"set_event_history_capacity", Some(MaxCap)>>
    /\ Len(ev_log) > MaxCap
    /\ Len(event_history) = MaxCap

\* C7: eviction is strict FIFO.  While the capacity Some(n), n > 0, has not
\* changed since the history was last empty by construction or clear, the
\* history is the newest min(k, n) of the k entries recorded since, oldest
\* first; for both streams.
C7_StrictFifo ==
    /\ (ev_steady /\ Finite(event_history_capacity) /\ event_history_capacity # Some(0)) =>
           event_history = Newest(ev_log, event_history_capacity[1])
    /\ (tr_steady /\ Finite(transition_history_capacity)
                  /\ transition_history_capacity # Some(0)) =>
           transition_history = Newest(tr_log, transition_history_capacity[1])

\* Both streams have evicted under an unchanged capacity.
C7_Witness ==
    /\ ev_steady /\ Finite(event_history_capacity) /\ event_history_capacity # Some(0)
    /\ Len(ev_log) > event_history_capacity[1] + 1
    /\ tr_steady /\ Finite(transition_history_capacity)
    /\ transition_history_capacity # Some(0)
    /\ Len(tr_log) > transition_history_capacity[1]

\* C9: a stream whose capacity is Some(0) holds nothing, however many
\* notifications it received, and last_transition() is none; this is the case
\* right after the capacity is set to Some(0) as well.
C9_DisabledRecordsNothing ==
    /\ event_history_capacity = Some(0) => event_history = <<>>
    /\ transition_history_capacity = Some(0) =>
           transition_history = <<>> /\ last_transition = None

\* The event stream is disabled and has handled events; the transition stream
\* has recorded transitions and was just set to Some(0).
C9_Witness ==
    /\ event_history_capacity = Some(0) /\ ev_log # <<>>
    /\ tr_log # <<>>
    /\ last_op = <<"set_transition_history_capacity", Some(0)>>

\* The entries a step added to the tape are one invocation of every callback
\* of the list with the argument, and nothing else.
DeliveredOnce(callbacks, stream, arg) ==
    /\ Len(tape') = Len(tape) + Len(callbacks)
    /\ SubSeq(tape', 1, Len(tape)) = tape
    /\ \A i \in 1..Len(callbacks) :
         Cardinality({j \in (Len(tape) + 1)..Len(tape') :
                         tape'[j] = <<stream, callbacks[i], arg>>}) = 1

C10_Step ==
    /\ last_op'[1] = "event_sent" =>
           DeliveredOnce(event_sent_callbacks, "sent", last_op'[2])
    /\ last_op'[1] = "event_handled" =>
           DeliveredOnce(event_handled_callbacks, "handled", last_op'[2])
    /\ last_op'[1] = "transition_occurred" =>
           DeliveredOnce(transition_callbacks, "transition", last_op'[2])

\* C10: every call of event_sent, event_handled or transition_occurred invokes
\* each callback registered for its stream exactly once, for every capacity
\* setting, Some(0) included.
C10_CallbacksFireOnce == [][C10_Step]_vars

\* A transition was notified to two callbacks while the transition history is
\* disabled.
C10_Witness ==
    /\ transition_history_capacity = Some(0)
    /\ last_op[1] = "transition_occurred"
    /\ Len(transition_callbacks) = 2
    /\ Len(tape) >= 2
    /\ tape[Len(tape)] = <<"transition", 2, last_op[2]>>

----------------------------------------------------------------------------
\* Properties of the notification protocol of generated machines.

IsNotification(e) == e.op # "dispatch"
IsDispatch(e) == e.op = "dispatch"
\* The notifications and swaps of the current call, in order.
Notes == SelectSeq(trace, IsNotification)

\* Nesting depth after the first k entries of a notification sequence.
Depth(n, k) ==
    Cardinality({j \in 1..k : n[j].op = "sent"}) -
    Cardinality({j \in 1..k : n[j].op = "handled"})

\* The entry that closes the sent notification at j: the first handled
\* notification after j that returns to the depth before j; 0 if there is none.
Match(n, j) ==
    LET closing == {k \in (j + 1)..Len(n) :
                       n[k].op = "handled" /\ Depth(n, k) = Depth(n, j) - 1}
    IN  IF closing = {} THEN 0 ELSE CHOOSE k \in closing : \A l \in closing : k <= l

IsSent(e, msg) == e.op = "sent" /\ e.what = msg
IsHandled(e, msg) == e.op = "handled" /\ e.what = msg
IsSwap(e, target) == e.op = "swap" /\ e.what = target
IsTransition(e, kind) == e.op = "transition" /\ e.what.info.kind = kind

\* C1: for every Transition Old -> New caused by event E the notifications are
\* event_sent(E), event_sent(exit of Old), event_handled(exit of Old), the swap
\* to New, transition_occurred, event_sent(enter of New), event_handled(enter
\* of New), event_handled(E), in this order; the exit is handled right before
\* the swap, the enter is sent right after the notification, and the current
\* state is New when transition_occurred is called.
C1_TransitionProtocol ==
    LET n == Notes IN
    \A i \in 1..Len(n) :
        IsTransition(n[i], "Transition") =>
            LET t == n[i].what
                Old == t.old_state
                New == t.new_state
                E == t.info.event
                exit_sent == {x \in 2..(i - 3) : /\ IsSent(n[x], ExitMsg(Old))
                                                 /\ Match(n, x) = i - 2
                                                 /\ IsSent(n[x - 1], E)}
            IN  /\ i >= 5
                /\ IsSwap(n[i - 1], New)
                /\ IsHandled(n[i - 2], ExitMsg(Old))
                /\ exit_sent # {}
                /\ n[i].cur = New
                /\ i + 1 <= Len(n) => IsSent(n[i + 1], EnterMsg(New))
                /\ Idle =>
                     LET k == Match(n, i + 1) IN
                       /\ k # 0
                       /\ IsHandled(n[k], EnterMsg(New))
                       /\ k + 1 <= Len(n)
                       /\ IsHandled(n[k + 1], E)
                       /\ \A x \in exit_sent : Match(n, x - 1) = k + 1

\* A cascade of transitions has run to completion.
C1_Witness ==
    /\ sm = "EventMonitorSm" /\ Idle
    /\ call.msg = "transit" /\ call.from = "A"
    /\ Len(SelectSeq(trace, LAMBDA e : IsTransition(e, "Transition"))) = 3

\* The part of a log written since the current call began.
Since(entries, mark) == SubSeq(entries, mark + 1, Len(entries))

\* C2: for every ChangeState caused by event E the notifications are
\* event_sent(E), the swap, transition_occurred, event_handled(E) with nothing
\* in between: no exit or enter event is dispatched and neither handler runs
\* (a change call of the Transition machine logs no enter and no exit).  It
\* holds for a change-state issued by an enter handler too: transit from S3
\* logs exit S3 and enter S4 only and ends in S0.
C2_ChangeStateProtocol ==
    /\ LET n == Notes IN
       \A i \in 1..Len(n) :
           IsTransition(n[i], "ChangeState") =>
               LET t == n[i].what IN
                 /\ i >= 3
                 /\ IsSent(n[i - 2], t.info.event)
                 /\ IsSwap(n[i - 1], t.new_state)
                 /\ n[i].cur = t.new_state
                 /\ i + 1 <= Len(n) => IsHandled(n[i + 1], t.info.event)
    /\ (sm = "Transition" /\ call.msg = "change") =>
           /\ Since(enters, call.enters_mark) = <<>>
           /\ Since(exits, call.exits_mark) = <<>>
    /\ (sm = "Transition" /\ Idle /\ call.msg = "transit" /\ call.from = "S3") =>
           /\ Since(exits, call.exits_mark) = <<"S3">>
           /\ Since(enters, call.enters_mark) = <<"S4">>
           /\ state = "S0"

\* The Transition machine has served transit in S3, whose cascade ends with
\* the change-state of the enter handler of S4.
C2_Witness ==
    /\ sm = "Transition" /\ Idle
    /\ call.msg = "transit" /\ call.from = "S3"
    /\ Len(SelectSeq(trace, LAMBDA e : IsTransition(e, "ChangeState"))) = 1

\* What callback cb of a stream was handed during the current call, in order.
Heard(stream, cb) ==
    LET mine(x) == x[1] = stream /\ x[2] = cb
        part == SelectSeq(Since(tape, call.tape_mark), mine)
    IN  [i \in 1..Len(part) |-> part[i][3]]

\* The first event-sent and the first event-handled callback hear the same
\* series of events, interleaved: the events they were handed during the
\* current call, each tagged with its stream.
Bracketing ==
    LET mine(x) == x[1] \in {"sent", "handled"} /\ x[2] = 1
        part == SelectSeq(Since(tape, call.tape_mark), mine)
    IN  [i \in 1..Len(part) |-> <<part[i][1], part[i][3]>>]

\* Reads a bracketing from entry i on with the events open so far: the events
\* left open at its end, or <<"!">> if a handled event is not the innermost
\* open one.
RECURSIVE Open(_, _, _)
Open(b, i, open) ==
    IF i > Len(b) THEN open
    ELSE IF b[i][1] = "sent" THEN Open(b, i + 1, Append(open, b[i][2]))
    ELSE IF open # <<>> /\ open[Len(open)] = b[i][2]
         THEN Open(b, i + 1, SubSeq(open, 1, Len(open) - 1))
         ELSE <<"!">>

\* The events dispatched during the current call, in order of dispatch.
Dispatched ==
    LET d == SelectSeq(trace, IsDispatch) IN [i \in 1..Len(d) |-> d[i].what]

C4_SentOrder ==
    (sm = "EventMonitorSm" /\ Idle /\ call.msg = "transit" /\ call.from = "A"
       /\ call.callbacks[1] >= 1) =>
        /\ Heard("sent", 1) = <<"transit", "A:<", "B:>", "transit", "B:<", "C:>",
                                "transit", "C:<", "D:>", "change">>
        /\ state = "A"

C4_Witness ==
    /\ sm = "EventMonitorSm" /\ Idle /\ call.msg = "transit" /\ call.from = "A"
    /\ call.callbacks[1] >= 1
    /\ Len(Heard("sent", 1)) = 10

\* C5: the same call hands the event-handled callbacks A:<, B:<, C:<, change,
\* D:>, transit, C:>, transit, B:>, transit, in this order: the outermost event
\* is handled last and every enter event after all its handler caused.
C5_HandledOrder ==
    (sm = "EventMonitorSm" /\ Idle /\ call.msg = "transit" /\ call.from = "A"
       /\ call.callbacks[2] >= 1) =>
        Heard("handled", 1) = <<"A:<", "B:<", "C:<", "change", "D:>", "transit",
                                "C:>", "transit", "B:>", "transit">>

C5_Witness ==
    /\ sm = "EventMonitorSm" /\ Idle /\ call.msg = "transit" /\ call.from = "A"
    /\ call.callbacks[2] >= 1
    /\ Len(Heard("handled", 1)) = 10

\* C8: the event history lists events in the order of their dispatch: with
\* event capacity 5 unchanged, after a transit call in state B (the cascade
\* B -> C -> D ->> A) the event history is C:>, transit, C:<, D:>, change.
C8_HistoryInDispatchOrder ==
    (sm = "EventMonitorSm" /\ Idle /\ call.msg = "transit" /\ call.from = "B"
       /\ ev_steady /\ event_history_capacity = Some(SmEventCapacity)) =>
        event_history = <<"C:>", "transit", "C:<", "D:>", "change">>

----------------------------------------------------------------------------
\* Further properties of the histories.

\* The arguments of the client operations of one kind, in order.
Arguments(kind) ==
    LET of_kind(op) == op[1] = kind
        sel == SelectSeq(ops, of_kind)
    IN  [i \in 1..Len(sel) |-> sel[i][2]]

\* Whether the client has performed an operation of the kind.
Performed(kind) == \E i \in 1..Len(ops) : ops[i][1] = kind

\* C11: a monitor created with event capacity None never evicts: while the
\* capacity is None unchanged, the event history is all events handled since
\* creation (or the last clear), in handled order; without any clear or
\* capacity change it lists every event_handled call the client made.
C11_UnboundedKeepsAll ==
    /\ (created[1] = None /\ event_history_capacity = None /\ ev_steady) =>
           event_history = ev_log
    /\ (sm = "TestMachine" /\ created[1] = None
          /\ ~Performed("clear_event_history")
          /\ ~Performed("set_event_history_capacity")) =>
           event_history = Arguments("event_handled")

\* An unbounded event history has recorded as many events as the client may
\* pass, more than the finite capacity would keep.
C11_Witness ==
    /\ sm = "TestMachine" /\ created[1] = None
    /\ ~Performed("clear_event_history") /\ ~Performed("set_event_history_capacity")
    /\ Len(Arguments("event_handled")) = MaxOps
    /\ Len(event_history) > MaxCap

\* A step that lowers a capacity below the number of entries held leaves the
\* newest entries, as many as the new capacity, in their order.
C12_Step ==
    /\ (/\ last_op'[1] = "set_event_history_capacity"
        /\ Finite(last_op'[2])
        /\ Len(event_history) > last_op'[2][1]) =>
           /\ event_history' = Newest(event_history, last_op'[2][1])
           /\ Len(event_history') = last_op'[2][1]
    /\ (/\ last_op'[1] = "set_transition_history_capacity"
        /\ Finite(last_op'[2])
        /\ Len(transition_history) > last_op'[2][1]) =>
           /\ transition_history' = Newest(transition_history, last_op'[2][1])
           /\ Len(transition_history') = last_op'[2][1]

\* C12: lowering a history capacity to Some(M) while the history holds L > M
\* entries evicts the oldest L - M at once: when the call returns the history
\* is exactly its newest M entries in their original order.
C12_LoweringEvictsOldest == [][C12_Step]_vars

\* The transition capacity was just lowered to a positive bound below the
\* number of transitions held, and the newest are left.
C12_Witness ==
    /\ last_op = <<"set_transition_history_capacity", Some(MaxCap)>>
    /\ created[2] # None /\ created[2][1] > MaxCap
    /\ Len(tr_log) > MaxCap
    /\ transition_history = Newest(tr_log, MaxCap)
    /\ transition_history[1] # tr_log[1]

\* Whether replacing capacity old by new raises the bound or removes it.
Raises(old, new) == new = None \/ (Finite(old) /\ new[1] > old[1])

\* The capacity bound allows one more entry in a history of length len.
HasRoom(capacity, len) == capacity = None \/ len < capacity[1]

C13_Step ==
    /\ (/\ last_op'[1] = "set_event_history_capacity"
        /\ Raises(event_history_capacity, last_op'[2])) =>
           event_history' = event_history
    /\ (/\ last_op'[1] = "set_transition_history_capacity"
        /\ Raises(transition_history_capacity, last_op'[2])) =>
           transition_history' = transition_history
    /\ (/\ last_op'[1] = "event_handled"
        /\ HasRoom(event_history_capacity, Len(event_history))) =>
           event_history' = Append(event_history, last_op'[2])
    /\ (/\ last_op'[1] = "transition_occurred"
        /\ HasRoom(transition_history_capacity, Len(transition_history))) =>
           transition_history' = Append(transition_history, last_op'[2])

\* C13: raising a history capacity, or setting it to None, changes neither the
\* contents of the history nor their order (nothing evicted earlier comes
\* back), and an entry recorded while the history is below the bound in force
\* is appended without eviction.
C13_RaisingKeepsHistory == [][C13_Step]_vars

\* The event history evicted under capacity 5, was then raised to 7, and has
\* since grown past 5 without getting back what was evicted.
C13_Witness ==
    /\ sm = "EventMonitorSm" /\ Idle
    /\ event_history_capacity = Some(SmRaisedCapacity)
    /\ Len(ev_log) > SmEventCapacity + 1
    /\ Len(event_history) = SmEventCapacity + 1
    /\ event_history = Newest(ev_log, SmEventCapacity + 1)

C14_Step ==
    /\ last_op'[1] = "clear_event_history" =>
           /\ event_history' = <<>>
           /\ UNCHANGED <<event_history_capacity, transition_history_capacity,
                          transition_history>>
    /\ last_op'[1] = "clear_transition_history" =>
           /\ transition_history' = <<>>
           /\ UNCHANGED <<event_history_capacity, transition_history_capacity,
                          event_history>>

\* After a clear and under the capacity it left in force, the history is the
\* newest entries recorded since the clear, as many as the capacity allows.
C14_After ==
    /\ (Performed("clear_event_history") /\ ev_steady) =>
           event_history =
               IF Finite(event_history_capacity)
               THEN Newest(ev_log, event_history_capacity[1]) ELSE ev_log
    /\ (Performed("clear_transition_history") /\ tr_steady) =>
           transition_history =
               IF Finite(transition_history_capacity)
               THEN Newest(tr_log, transition_history_capacity[1]) ELSE tr_log

\* C14: clear_event_history and clear_transition_history empty their history
\* and change no capacity (nor the other history); what is recorded after a
\* clear is kept and evicted under the same bound as before it.
C14_ClearKeepsCapacity == [][C14_Step]_vars /\ []C14_After

\* The event history was cleared and has since evicted under the capacity
\* the machine was built with.
C14_Witness ==
    /\ sm = "EventMonitorSm" /\ Idle
    /\ Performed("clear_event_history") /\ ev_steady
    /\ event_history_capacity = created[1]
    /\ Len(ev_log) > SmEventCapacity
    /\ Len(event_history) = SmEventCapacity

\* The transition capacity was not Some(0) at creation and was never set to it.
NeverDisabled ==
    /\ created[2] # Some(0)
    /\ \A i \in 1..Len(ops) : ops[i] # <<"set_transition_history_capacity", Some(0)>>

\* C15: while the transition capacity has never been Some(0), last_transition()
\* is none exactly when no transition was notified since creation or the last
\* clear_transition_history(), and otherwise it is the transition notified
\* last, whatever was evicted and however the capacity was changed.
C15_LastTransition ==
    NeverDisabled =>
        last_transition =
            IF tr_log = <<>> THEN None ELSE Some(tr_log[Len(tr_log)])

\* Transitions were evicted and the capacity was changed since; the last one
\* notified differs from the oldest one kept.
C15_Witness ==
    /\ NeverDisabled /\ ~tr_steady
    /\ Len(tr_log) > Len(transition_history)
    /\ Len(transition_history) >= 2
    /\ last_transition = Some(tr_log[Len(tr_log)])
    /\ transition_history[1] # tr_log[Len(tr_log)]

----------------------------------------------------------------------------
\* Further properties of the callbacks.

\* A step invoked the first n callbacks registered for a stream, in the order
\* of their registration, on the argument, and no other callback.
InRegistrationOrder(n, stream, arg) ==
    tape' = tape \o [i \in 1..n |-> <<stream, i, arg>>]

C16_Step ==
    /\ last_op'[1] = "event_sent" =>
           InRegistrationOrder(Len(event_sent_callbacks), "sent", last_op'[2])
    /\ last_op'[1] = "event_handled" =>
           InRegistrationOrder(Len(event_handled_callbacks), "handled", last_op'[2])
    /\ last_op'[1] = "transition_occurred" =>
           InRegistrationOrder(Len(transition_callbacks), "transition", last_op'[2])
    /\ tape' # tape =>
           last_op'[1] \in {"event_sent", "event_handled", "transition_occurred"}

\* C16: the callbacks of a stream run in the order of their registration, one
\* after the other, within the event_sent, event_handled or
\* transition_occurred call that triggers them: the call hands its argument to
\* the first, then the second, and so on, and no callback runs in any other
\* step, so that invocations never interleave with those of another call.
C16_RegistrationOrder == [][C16_Step]_vars

\* A generated machine has notified a transition to two callbacks, the one
\* registered first before the other.
C16_Witness ==
    /\ sm \in Generated
    /\ last_op[1] = "transition_occurred"
    /\ Len(transition_callbacks) = 2
    /\ Len(tape) >= 2
    /\ tape[Len(tape) - 1] = <<"transition", 1, last_op[2]>>
    /\ tape[Len(tape)] = <<"transition", 2, last_op[2]>>

C17_Step ==
    last_op'[1] = "event_sent" =>
        UNCHANGED <<event_history, transition_history,
                    event_history_capacity, transition_history_capacity>>

\* C17: event_sent writes no history: both histories and both capacities are
\* after the call what they were before it, for every capacity setting.
C17_SentWritesNoHistory == [][C17_Step]_vars

\* An event was sent to a callback of a monitor that records without bound,
\* and the event history is still empty.
C17_Witness ==
    /\ last_op[1] = "event_sent"
    /\ event_history_capacity = None
    /\ event_history = <<>>
    /\ Len(tape) >= 1
    /\ tape[Len(tape)][1] = "sent"

----------------------------------------------------------------------------
\* The point of a transition at which its callbacks run.

\* C18 as stated: when the transition callbacks are invoked for a transition
\* Old -> New, the transition is complete: the exit event of Old and the enter
\* event of New have both been processed (handled).
C18_CallbacksAfterEnter ==
    (sm \in Generated /\ transition_callbacks # <<>>) =>
        LET n == Notes IN
        \A i \in 1..Len(n) :
            IsTransition(n[i], "Transition") =>
                /\ \E x \in 1..(i - 1) : IsHandled(n[x], ExitMsg(n[i].what.old_state))
                /\ \E y \in 1..(i - 1) : IsHandled(n[y], EnterMsg(n[i].what.new_state))

\* The old state of a transition instance is the source of its static
\* description and the new state its target.
Consistent(t) == t.old_state = t.info.source /\ t.new_state = t.info.target

\* The state a pop or pop_change call takes off the state stack: the top of
\* the stack as the call found it.
Popped == call.saved[Len(call.saved)]

\* The same for a transition whose static target may be the pop placeholder:
\* its new state is then a state of the machine, not the placeholder.
ConsistentOrPopped(t) ==
    IF t.info.target = PopPlaceholder
    THEN t.old_state = t.info.source /\ t.new_state \in States(sm)
    ELSE Consistent(t)

\* C19 as stated: every transition a generated machine notifies pairs the
\* static transition with an old state instance of its source state and a new
\* state instance of its target state.
C19_ConsistentEveryTransition ==
    sm \in Generated =>
        /\ \A i \in 1..Len(tr_log) : Consistent(tr_log[i])
        /\ \A i \in 1..Len(transition_history) : Consistent(transition_history[i])
        /\ \A i \in 1..Len(tape) :
               tape[i][1] = "transition" => Consistent(tape[i][3])

\* C19 amended: every transition a generated machine notifies pairs the static
\* transition with an old state instance of its source state and, unless the
\* static target is the placeholder of a state stack pop, a new state instance
\* of its target state: what is passed to transition_occurred, what the
\* callbacks are handed and what the history keeps, for transitions,
\* change-states and those of a cascade.  The new state of a popping
\* transition is the state popped: the transition notified in a pop or
\* pop_change call has as its new state the state instance that was on top of
\* the state stack when the call began, which is the current state from then
\* on; only such a call notifies a transition to the placeholder, and it
\* notifies no other.
C19_ConsistentTransition ==
    sm \in Generated =>
        /\ \A i \in 1..Len(tr_log) : ConsistentOrPopped(tr_log[i])
        /\ \A i \in 1..Len(transition_history) :
               ConsistentOrPopped(transition_history[i])
        /\ \A i \in 1..Len(tape) :
               tape[i][1] = "transition" => ConsistentOrPopped(tape[i][3])
        /\ \A i \in 1..Len(Notes) :
               (Notes[i].op = "transition" /\ Notes[i].what.info.target = PopPlaceholder) =>
                   /\ call.msg \in {"pop", "pop_change"}
                   /\ call.saved # <<>>
                   /\ Notes[i].what.new_state = Popped.name
                   /\ Notes[i].what.old_state = call.from
                   /\ \A j \in 1..Len(Notes) : Notes[j].op = "transition" => j = i
                   /\ StateInstance(state, state_instance) = Popped

\* The StateStack machine has returned from a pop_change that took it from A
\* back to the state C pushed earlier: the transition notified has the
\* placeholder as its target and C as its new state.
C19_Witness ==
    /\ sm = "StateStack" /\ Idle
    /\ call.msg = "pop_change" /\ call.from = "A"
    /\ Popped.name = "C"
    /\ tr_log[Len(tr_log)] =
           TransitionInstance(Handler(sm, "A", "pop_change").info, "A", "C")
    /\ tr_log[Len(tr_log)].info.target = PopPlaceholder

----------------------------------------------------------------------------
\* Properties of the state stack.

\* The interface calls the client has made, in order.
Calls ==
    LET is_call(op) == op[1] \in UNION {Interface(m) : m \in Generated}
        sel == SelectSeq(ops, is_call)
    IN  [i \in 1..Len(sel) |-> sel[i][1]]

IsStateChange(msg) == msg \in {"to_a", "to_b", "to_c"}
TargetOf(msg) == CASE msg = "to_a" -> "A" [] msg = "to_b" -> "B" [] OTHER -> "C"

\* The calls before the k-th, while they are state changes and pushes only:
\* the state they lead to and the instance of it that is current then (each
\* state change constructs one instance, the initial state being the first).
ChangesBefore(k) == {j \in 1..(k - 1) : IsStateChange(Calls[j])}
StateAt(k) ==
    IF ChangesBefore(k) = {} THEN InitialState(sm)
    ELSE TargetOf(Calls[CHOOSE j \in ChangesBefore(k) : \A l \in ChangesBefore(k) : l <= j])
InstanceAt(k) == 1 + Cardinality(ChangesBefore(k))

\* The k-th call is a push, only state changes follow it, and the last call is
\* a pop that has returned; before the push there were state changes and
\* pushes only.
PushedThenPopped(k) ==
    /\ sm = "StateStack" /\ Idle
    /\ k \in 1..(Len(Calls) - 1)
    /\ Calls[k] = "push"
    /\ Calls[Len(Calls)] = "pop"
    /\ \A j \in 1..(k - 1) : IsStateChange(Calls[j]) \/ Calls[j] = "push"
    /\ \A j \in (k + 1)..(Len(Calls) - 1) : IsStateChange(Calls[j])

\* C20: push() followed, after any number of state changes, by pop() makes the
\* state instance that was current at the push current again: the same state
\* and the same instance, no instance being constructed by the pop.
C20_PushPopRestores ==
    \A k \in 1..Len(ops) :
        PushedThenPopped(k) =>
            /\ state = StateAt(k)
            /\ state_instance = InstanceAt(k)
            /\ constructed = InstanceAt(Len(Calls))

\* The machine pushed a state, moved on to another state, and popped.
C20_Witness ==
    /\ sm = "StateStack" /\ Idle
    /\ Calls = <<"to_b", "push", "to_c", "pop">> \/ Calls = <<"push", "to_b", "pop">>
    /\ state_stack = <<>>
    /\ state_instance < constructed

\* The state stack discipline, read off the interface calls alone: a state
\* change makes a new instance of its target current, a push saves the current
\* instance, a pop makes the instance saved by the latest push not yet popped
\* current again and forgets that push.  Replay(i, cur, saved, made) follows
\* the calls from the i-th on, from the current instance cur, the saved
\* instances (latest last) and the number of instances made.
RECURSIVE Replay(_, _, _, _)
Replay(i, cur, saved, made) ==
    IF i > Len(Calls) THEN [cur |-> cur, saved |-> saved, made |-> made]
    ELSE IF IsStateChange(Calls[i])
         THEN Replay(i + 1, StateInstance(TargetOf(Calls[i]), made + 1), saved, made + 1)
    ELSE IF Calls[i] = "push"
         THEN Replay(i + 1, cur, Append(saved, cur), made)
    ELSE IF saved = <<>>
         THEN [cur |-> cur, saved |-> saved, made |-> made]
    ELSE Replay(i + 1, saved[Len(saved)], SubSeq(saved, 1, Len(saved) - 1), made)

\* C21: the state stack is strictly LIFO over every interleaving of push, pop,
\* pop_change and state changes: whenever a call has returned, the current
\* state instance and the saved ones are what the discipline above gives, so
\* each pop installs what the latest push not yet popped saved, repeated
\* pushes of one state included, and a state entered without a push is never
\* restored.
C21_StateStackLifo ==
    (sm = "StateStack" /\ Idle) =>
        LET r == Replay(1, StateInstance(InitialState(sm), 1), <<>>, 1) IN
          /\ StateInstance(state, state_instance) = r.cur
          /\ state_stack = r.saved
          /\ constructed = r.made

\* Two different states were pushed and both popped: the second pop has
\* restored the state pushed first.
C21_Witness ==
    /\ sm = "StateStack" /\ Idle
    /\ Calls = <<"push", "to_b", "push", "pop", "pop">>
    /\ state = "A" /\ state_instance = 1
    /\ state_stack = <<>>

\* While a push call is served, nothing but the push event is dispatched, sent
\* or handled, the state is the one the call found, and no handler has logged.
C22_During ==
    (sm = "StateStack" /\ call.msg = "push") =>
        /\ state = call.from
        /\ \A i \in 1..Len(trace) :
               trace[i].op \in {"dispatch", "sent", "handled"} /\ trace[i].what = "push"
        /\ Since(sm_tape, call.log_mark) = <<>>

\* A step of a push call: the handler's step adds the current state instance on
\* top of the state stack, no other step touches the state stack, and no step
\* changes the current state instance, constructs one, or records a transition.
C22_Step ==
    (sm = "StateStack" /\ call'.msg = "push" /\ ~(Idle /\ Idle')) =>
        /\ state_stack' =
               IF last_op' = <<"run", "push">>
               THEN Append(state_stack, StateInstance(state, state_instance))
               ELSE state_stack
        /\ UNCHANGED <<state, state_instance, constructed, tr_log, transition_history>>

\* C22: push() leaves the current state unchanged and fires no exit, enter or
\* transition notification; it only adds one entry, the current state
\* instance, on top of the state stack.
C22_PushOnlySaves == []C22_During /\ [][C22_Step]_vars

\* A push has returned in state B with something already on the stack.
C22_Witness ==
    /\ sm = "StateStack" /\ Idle
    /\ call.msg = "push" /\ state = "B"
    /\ Len(state_stack) = 2
    /\ state_stack[2] = StateInstance("B", state_instance)
    /\ Len(trace) = 3

\* C23: pop() follows the Transition protocol: the exit event goes to the
\* outgoing state and the enter event to the restored state, around the swap
\* and the transition notification, so a returned pop has logged the exit
\* message of the state it left and then the enter message of the state it
\* restored (a pop leaving A for a pushed C logs A:< and C:>).
C23_PopIsTransition ==
    (sm = "StateStack" /\ Idle /\ call.msg = "pop") =>
        /\ Since(sm_tape, call.log_mark) = <<ExitMsg(call.from), EnterMsg(state)>>
        /\ Len(Notes) = 8
        /\ IsSent(Notes[1], "pop")
        /\ IsSent(Notes[2], ExitMsg(call.from)) /\ Notes[2].cur = call.from
        /\ IsHandled(Notes[3], ExitMsg(call.from)) /\ Notes[3].cur = call.from
        /\ IsSwap(Notes[4], state)
        /\ IsTransition(Notes[5], "Transition")
        /\ Notes[5].what.old_state = call.from /\ Notes[5].what.new_state = state
        /\ IsSent(Notes[6], EnterMsg(state)) /\ Notes[6].cur = state
        /\ IsHandled(Notes[7], EnterMsg(state))
        /\ IsHandled(Notes[8], "pop")

\* As in the test pop_transition_events: C is pushed, the machine moves to A,
\* and the pop leaves A for the pushed C.
C23_Witness ==
    /\ sm = "StateStack" /\ Idle
    /\ Calls = <<"to_c", "push", "to_a", "pop">>
    /\ call.from = "A" /\ state = "C"
    /\ Since(sm_tape, call.log_mark) = <<"A:<", "C:>">>

\* What a returned pop or pop_change has done to the state stack the call
\* found: the instance on top of it is current and is off the stack, and no
\* instance was constructed.
Restored ==
    /\ call.saved # <<>>
    /\ StateInstance(state, state_instance) = call.saved[Len(call.saved)]
    /\ state_stack = SubSeq(call.saved, 1, Len(call.saved) - 1)
    /\ constructed = Replay(1, StateInstance(InitialState(sm), 1), <<>>, 1).made

\* C24: pop_change() installs the same state as pop() would and removes the
\* same entry, but follows the ChangeState protocol: the only notifications
\* are the event sent, the swap, the transition and the event handled, no exit
\* or enter event is dispatched and neither handler runs (nothing is logged).
C24_PopChangeRunsNoHandlers ==
    (sm = "StateStack" /\ Idle /\ call.msg \in {"pop", "pop_change"}) =>
        /\ Restored
        /\ call.msg = "pop_change" =>
             /\ Since(sm_tape, call.log_mark) = <<>>
             /\ \A i \in 1..Len(trace) : trace[i].op = "dispatch" => trace[i].what = "pop_change"
             /\ Len(Notes) = 4
             /\ IsSent(Notes[1], "pop_change")
             /\ IsSwap(Notes[2], state)
             /\ IsTransition(Notes[3], "ChangeState")
             /\ Notes[3].what.old_state = call.from /\ Notes[3].what.new_state = state
             /\ IsHandled(Notes[4], "pop_change")

\* As in the test pop_change_state_no_events: C is pushed, the machine moves
\* to A, and pop_change installs the pushed C without a log entry.
C24_Witness ==
    /\ sm = "StateStack" /\ Idle
    /\ Calls = <<"to_c", "push", "to_a", "pop_change">>
    /\ call.from = "A" /\ state = "C" /\ state_instance = 2
    /\ state_stack = <<>>
    /\ sm_tape = <<"A:>", "A:<", "C:>", "C:<", "A:>">>

\* C25: pop() or pop_change() on an empty state stack never installs a state:
\* the current state instance and the empty stack stay as the call found them,
\* no state is swapped in, no transition is notified, no exit or enter event is
\* dispatched and nothing is logged.  (The machine modelled declares the fault:
\* such a call does not return.)
C25_EmptyPopInstallsNothing ==
    (sm = "StateStack" /\ call.msg \in {"pop", "pop_change"} /\ call.saved = <<>>) =>
        LET r == Replay(1, StateInstance(InitialState(sm), 1), <<>>, 1) IN
          /\ StateInstance(state, state_instance) = r.cur
          /\ state = call.from
          /\ state_stack = <<>>
          /\ constructed = r.made
          /\ Since(sm_tape, call.log_mark) = <<>>
          /\ \A i \in 1..Len(trace) :
                 trace[i].op \in {"dispatch", "sent", "handled"} /\ trace[i].what = call.msg

\* A pop_change on the empty stack, after entries were pushed and popped, has
\* run its handler.
C25_Witness ==
    /\ sm = "StateStack"
    /\ Calls = <<"to_b", "push", "pop", "pop_change">>
    /\ call.saved = <<>>
    /\ last_op = <<"run", "pop_change">>
    /\ state = "B" /\ state_instance = 2

\* C27: the event handed to event_handled, which is the event the history
\* stores, carries the return value its handler produced: present for change
\* and mult of the EventMonitorSm machine, absent for reset and the events
\* that return nothing; the event handed to
\* event_sent carries none, the value being set by the handler.
C27_ReturnValueOnceHandled ==
    sm \in Generated =>
        /\ \A i \in 1..Len(trace) :
             /\ trace[i].op = "sent" => trace[i].ret = None
             /\ trace[i].op = "handled" =>
                  /\ trace[i].ret = ReturnValue(sm, trace[i].what)
                  /\ (sm = "EventMonitorSm" /\ trace[i].what \in {"change", "mult"}) =>
                       trace[i].ret # None
                  /\ trace[i].what = "reset" => trace[i].ret = None
        /\ (last_op[1] = "event_handled" /\ event_history # <<>>) =>
             LET e == trace[Len(trace)] IN
               /\ e.op = "handled"
               /\ event_history[Len(event_history)] = e.what
               /\ e.ret = ReturnValue(sm, e.what)

\* A transit call from C has returned: the enter handler of D sent change,
\* which was sent without a value and handled with one, and the history holds
\* it before the events that enclose it.
C27_Witness ==
    /\ sm = "EventMonitorSm" /\ Idle
    /\ call.msg = "transit" /\ call.from = "C"
    /\ \E i, j \in 1..Len(trace) :
         /\ i < j
         /\ trace[i].op = "sent" /\ trace[i].what = "change" /\ trace[i].ret = None
         /\ trace[j].op = "handled" /\ trace[j].what = "change" /\ trace[j].ret = Some("change")
    /\ trace[Len(trace)].what = "transit" /\ trace[Len(trace)].ret = None
    /\ \E k \in 1..Len(event_history) : event_history[k] = "change"

\* A dispatch has stopped in the declared fault of a pop off an empty state
\* stack.
Faulted == ~Idle /\ Top.pc = "fault"

\* Every sent notification of a returned call has its handled notification.
AllHandled == \A j \in 1..Len(Notes) : Notes[j].op = "sent" => Match(Notes, j) # 0

\* C28 as stated: every dispatch terminates: a dispatch in progress, the
\* cascading chains started from enter handlers included, leads to the call
\* having returned with every event sent also handled.
C28_EveryDispatchReturns == (~Idle) ~> (Idle /\ AllHandled)

\* A pop or pop_change call that found the state stack empty has stopped in
\* the declared fault: its event was sent and is not handled.
EmptyPopFaulted ==
    /\ Faulted
    /\ sm = "StateStack" /\ call.msg \in {"pop", "pop_change"} /\ call.saved = <<>>
    /\ Top.msg = call.msg /\ Len(stack) = 1

\* C28 amended: every dispatch terminates but the pop off an empty state
\* stack: a dispatch in progress, the cascading chains started from enter
\* handlers included, leads to the call having returned with every event sent
\* also handled, or it is a pop or pop_change call that found the state stack
\* empty and stops in the declared fault after its event was sent.
C28_DispatchTerminates == (~Idle) ~> ((Idle /\ AllHandled) \/ EmptyPopFaulted)

\* The cascading transit of the Transition machine has returned: from S1 the
\* enter handler of S2 moved on to S3.
C28_Witness ==
    /\ sm = "Transition" /\ Idle
    /\ call.msg = "transit" /\ call.from = "S1" /\ state = "S3"
    /\ Len(stack) = 0 /\ AllHandled
    /\ \E j \in 1..Len(Notes) : IsSent(Notes[j], "S3:>")

\* The operations of the event stream and those of the transition stream.
EventStreamOps == {"event_handled", "clear_event_history", "set_event_history_capacity"}
TransitionStreamOps ==
    {"transition_occurred", "clear_transition_history", "set_transition_history_capacity"}

C29_Step ==
    /\ last_op'[1] \in EventStreamOps =>
         UNCHANGED <<transition_history, transition_history_capacity>>
    /\ last_op'[1] \in TransitionStreamOps =>
         UNCHANGED <<event_history, event_history_capacity>>

\* C29: the event stream and the transition stream are independent:
\* event_handled, clear_event_history and set_event_history_capacity leave the
\* transition history and its capacity unchanged, and transition_occurred,
\* clear_transition_history and set_transition_history_capacity leave the
\* event history and its capacity unchanged.
C29_StreamsIndependent == [][C29_Step]_vars

\* The event history of a machine was disabled and lost its entries while the
\* transition history kept its own under its own capacity.
C29_Witness ==
    /\ sm = "EventMonitorSm"
    /\ last_op = <<"set_event_history_capacity", Some(0)>>
    /\ ev_log # <<>> /\ event_history = <<>>
    /\ transition_history # <<>>
    /\ transition_history_capacity = Some(SmTransitionCapacity)

\* The ids of the transitions notified since the transition log was cleared.
Ids == [i \in 1..Len(tr_log) |-> tr_log[i].info.id]

\* The ids the declared transitions give for one event, read off the static
\* handler table alone: Fired(m, s, msg) follows what msg causes in state s,
\* the events sent by enter handlers included, and yields the ids in firing
\* order and the state reached.
RECURSIVE Fired(_, _, _)
Fired(m, s, msg) ==
    LET h == Handler(m, s, msg) IN
      IF h.kind = "dispatch" THEN Fired(m, s, h.msg)
      ELSE IF h.kind = "change_state"
           THEN [ids |-> <<h.info.id>>, state |-> h.info.target]
      ELSE IF h.kind = "transition"
           THEN LET entered == Fired(m, h.info.target, EnterMsg(h.info.target))
                IN  [ids |-> <<h.info.id>> \o entered.ids, state |-> entered.state]
      ELSE [ids |-> <<>>, state |-> s]

\* The ids for a series of calls made from state s.
RECURSIVE FiredBy(_, _, _)
FiredBy(m, s, calls) ==
    IF calls = <<>> THEN <<>>
    ELSE LET first == Fired(m, s, Head(calls))
         IN  first.ids \o FiredBy(m, first.state, Tail(calls))

NeverCleared == \A i \in 1..Len(ops) : ops[i][1] # "clear_transition_history"

\* C30: transition ids are deterministic: each transition notification carries
\* the id of the declared transition that fired, so the ids notified are a
\* function of the calls made: three transit calls of the Transition machine
\* from S0 give 0, 2, 4, 7, 9 and end in S0, and four change calls from S0 give
\* 1, 3, 6, 8.
C30_TransitionIdsDeterministic ==
    (sm \in {"Transition", "EventMonitorSm"} /\ Idle /\ NeverCleared) =>
        /\ Ids = FiredBy(sm, InitialState(sm), Calls)
        /\ \A i \in 1..Len(tr_log) :
               tr_log[i].info = Handler(sm, tr_log[i].old_state, tr_log[i].info.event).info
        /\ (sm = "Transition" /\ Calls = <<"transit", "transit", "transit">>) =>
               Ids = <<0, 2, 4, 7, 9>> /\ state = "S0"
        /\ (sm = "Transition" /\ Calls = <<"change", "change", "change", "change">>) =>
               Ids = <<1, 3, 6, 8>>

\* Three transit calls and two change calls of the Transition machine.
C30_Witness ==
    /\ sm = "Transition" /\ Idle
    /\ Calls = <<"transit", "transit", "transit", "change", "change">>
    /\ Ids = <<0, 2, 4, 7, 9, 1, 3>>
    /\ state = "S2"

----------------------------------------------------------------------------
\* Properties of the build process (specification BuildSpec).

C31_Step ==
    /\ last_op'[1] = "min_depth" => build' = [build EXCEPT !.min_depth = last_op'[2]]
    /\ last_op'[1] = "max_depth" => build' = [build EXCEPT !.max_depth = last_op'[2]]

\* C31: min_depth(d) sets the minimum depth of the walk to d and leaves the
\* maximum depth and every other setting unchanged; max_depth(d) sets only the
\* maximum depth.
C31_MinDepthSetsMinimum == [][C31_Step]_vars

\* The calls of Framec of the latest run that succeeded, and the output files
\* they stand for.
Succeeded == LET ok(c) == c[3] = "ok" IN SelectSeq(build_result.framec_calls, ok)
OutputFiles(calls) == [i \in 1..Len(calls) |-> <<build.output_dir, calls[i][1], calls[i][2]>>]
\* The (file, target) pairs of the configuration in the order run takes them.
RECURSIVE Pairs(_, _, _)
Pairs(walk_dir, i, targets) ==
    IF i > Len(walk_dir) THEN <<>>
    ELSE (IF walk_dir[i].frm /\ input_filter(build.input_filter, walk_dir[i].name)
          THEN [j \in 1..Len(targets) |-> <<walk_dir[i].name, targets[j]>>]
          ELSE <<>>) \o Pairs(walk_dir, i + 1, targets)

\* A step that is a call of run, and what the claim says of it.
C32_Step ==
    (sm = "FrameBuild" /\ last_op' = <<"run">>) =>
        LET calls == build_result'.framec_calls
            failed == {i \in 1..Len(calls) : calls[i][3] # "ok"}
            io_failed == build_result'.io_error # None
        IN  /\ build' = build
            /\ build_result'.ret \in {"Ok", "Err"}
            /\ io_failed => build_result'.ret = "Err"
            /\ ~build.continue_on_error =>
                 /\ build_result'.ret = "Err" <=> (failed # {} \/ io_failed)
                 /\ failed \subseteq {Len(calls)}
                 /\ failed # {} => ~io_failed
            /\ build.continue_on_error =>
                 /\ build_result'.ret = "Ok" <=> ~io_failed
                 /\ ~io_failed =>
                      [i \in 1..Len(calls) |-> <<calls[i][1], calls[i][2]>>] =
                          Pairs(WalkDir(build.max_depth, build.min_depth), 1, build.targets)
            /\ build_result'.ret = "Ok" =>
                 /\ build_result'.generated_files = OutputFiles(Succeeded)'
                 /\ build_result'.written =
                        OnDisk(build_result.written, build_result'.generated_files)

\* C32: without continue_on_error run stops at the first Framec error or
\* panic and returns Err; with it run skips the failing (file, target) pair,
\* goes on with the remaining targets and files and returns Ok with exactly
\* the files written, which this run added to the output files on disk; a
\* file system error makes run return Err in both modes.
C32_ContinueOnError == [][C32_Step]_vars

\* With continue_on_error and two targets, Framec failed on the first file for
\* one target and panicked on the second file; run went on and returned the
\* file written in between.
C32_Witness ==
    /\ sm = "FrameBuild" /\ build.continue_on_error /\ last_op = <<"run">>
    /\ build.targets = <<"Rust", "Smcat">>
    /\ build_result.ret = "Ok"
    /\ build_result.framec_calls =
           <<<<"a", "Rust", "err">>, <<"a", "Smcat", "ok">>,
             <<"sub/c", "Rust", "panic">>, <<"sub/c", "Smcat", "ok">>>>
    /\ build_result.generated_files =
           <<<<"OUT_DIR", "a", "Smcat">>, <<"OUT_DIR", "sub/c", "Smcat">>>>

----------------------------------------------------------------------------
\* Properties of the order of history write and callbacks.

\* The last entry of a history a callback found, None for an empty history.
LatestOf(history) == IF history = <<>> THEN None ELSE Some(history[Len(history)])

\* C33: event_handled(e) and transition_occurred(t) write the history,
\* eviction included, before the first callback runs: with a capacity other
\* than Some(0), every callback of the notification finds the entry as the
\* newest of the history, and finds the history as the call leaves it, within
\* its capacity.
C33_HistoryBeforeCallbacks ==
    /\ (last_op[1] = "event_handled" /\ event_history_capacity # Some(0)) =>
           \A i \in 1..Len(seen) :
               /\ LatestOf(seen[i].event_history) = Some(last_op[2])
               /\ seen[i].event_history = event_history
               /\ event_history_capacity # None =>
                      Len(seen[i].event_history) <= event_history_capacity[1]
    /\ (last_op[1] = "transition_occurred" /\ transition_history_capacity # Some(0)) =>
           \A i \in 1..Len(seen) :
               /\ LatestOf(seen[i].transition_history) = Some(last_op[2])
               /\ seen[i].transition_history = transition_history
               /\ transition_history_capacity # None =>
                      Len(seen[i].transition_history) <= transition_history_capacity[1]

\* An event-handled callback and a transition callback have each run on a
\* notification that evicted an older entry of an enabled history.
C33_Witness ==
    /\ last_op[1] \in {"event_handled", "transition_occurred"}
    /\ seen # <<>>
    /\ IF last_op[1] = "event_handled"
       THEN /\ event_history_capacity \notin {None, Some(0)}
            /\ Len(ev_log) > Len(event_history)
            /\ ev_steady
       ELSE /\ transition_history_capacity \notin {None, Some(0)}
            /\ Len(tr_log) > Len(transition_history)
            /\ tr_steady

----------------------------------------------------------------------------
\* The push of the code against the rule of the specification.

\* The specified rule: nothing is stored under capacity Some(0); otherwise the
\* entry is appended and the oldest entries are popped while the history is
\* over capacity.
RECURSIVE PopWhileOver(_, _)
PopWhileOver(capacity, deque) ==
    IF capacity # None /\ Len(deque) > capacity[1]
    THEN PopWhileOver(capacity, pop_front(deque))
    ELSE deque

SpecPush(capacity, deque, elem) ==
    IF capacity = Some(0) THEN deque ELSE PopWhileOver(capacity, Append(deque, elem))

\* C34: in every reachable state, pushing any entry with the code's push
\* (drop at most one oldest entry when the length has reached the capacity,
\* then append) gives the same history as the specified rule (append, then pop
\* the oldest while over capacity), for the event and the transition history.
C34_PushMatchesRule ==
    /\ \A e \in TestEvents :
           push_to_deque(event_history_capacity, event_history, e)
               = SpecPush(event_history_capacity, event_history, e)
    /\ \A t \in TestTransitions :
           push_to_deque(transition_history_capacity, transition_history, t)
               = SpecPush(transition_history_capacity, transition_history, t)

\* A capacity has been lowered onto a history that held more entries, and the
\* history is full: the next push evicts.
C34_Witness ==
    /\ ~ev_steady
    /\ event_history_capacity = Some(MaxCap)
    /\ Len(event_history) = MaxCap
    /\ Len(ev_log) > MaxCap
    /\ \E i \in 1..Len(ops) : ops[i][1] = "set_event_history_capacity"

----------------------------------------------------------------------------
\* Cascaded transitions.

\* The transitions of the current call as the tests display them, in order.
Displayed ==
    LET moves == SelectSeq(trace, LAMBDA e : e.op = "transition")
    IN  [i \in 1..Len(moves) |-> to_string(moves[i].what)]

\* The enter dispatches of state s that are in progress at entry i of the
\* notifications n.
Entering(n, s, i) ==
    {j \in 1..(i - 1) : IsSent(n[j], EnterMsg(s)) /\ (Match(n, j) = 0 \/ Match(n, j) > i)}

\* C35: a transition triggered by an enter handler runs nested in the
\* transition that entered the state: the intermediate state was entered by
\* the transition before and its enter event is still being dispatched, it is
\* exited after it was entered, the whole cascade is over before the event
\* that started it is handled, and the machine ends in the last target.  For
\* the Transition machine, transit from S1 logs exits [S1, S2] and enters
\* [S2, S3], ends in S3, and every transition callback registered when the
\* call began is handed S1->S2, S2->S3.
C35_CascadeNested ==
    /\ LET n == Notes IN
       /\ \A i \in 1..Len(n) :
             (n[i].op = "transition"
                /\ n[i].what.info.event = EnterMsg(n[i].what.old_state)) =>
                 LET via == n[i].what.old_state
                     entering == Entering(n, via, i)
                 IN  /\ Cardinality(entering) = 1
                     /\ \A j \in entering :
                            /\ j >= 2
                            /\ IsTransition(n[j - 1], "Transition")
                            /\ n[j - 1].what.new_state = via
                            /\ n[i].what.info.kind = "Transition" =>
                                   \E x \in (j + 1)..(i - 1) :
                                       /\ IsSent(n[x], ExitMsg(via))
                                       /\ Match(n, x) \in (x + 1)..(i - 1)
                            /\ Idle => Match(n, j) > i
       /\ (Idle /\ n # <<>>) =>
             /\ n[1].op = "sent"
             /\ Match(n, 1) = Len(n)
             /\ \A i \in 1..Len(n) :
                   (n[i].op = "transition"
                      /\ \A k \in (i + 1)..Len(n) : n[k].op # "transition") =>
                       state = n[i].what.new_state
    /\ (sm = "Transition" /\ Idle /\ call.msg = "transit" /\ call.from = "S1") =>
           /\ Since(exits, call.exits_mark) = <<"S1", "S2">>
           /\ Since(enters, call.enters_mark) = <<"S2", "S3">>
           /\ (Len(ops) >= 2 /\ ops[Len(ops) - 1] = <<"clear_all">>) =>
                  exits = <<"S1", "S2">> /\ enters = <<"S2", "S3">>
           /\ state = "S3"
           /\ Displayed = <<"S1->S2", "S2->S3">>
           /\ \A c \in 1..call.callbacks[3] :
                  LET heard == Heard("transition", transition_callbacks[c])
                  IN  [i \in 1..Len(heard) |-> to_string(heard[i])] = Displayed

\* The Transition machine has served transit in S1 with a transition callback
\* registered: the enter handler of S2 has moved the machine on to S3.
C35_Witness ==
    /\ sm = "Transition" /\ Idle
    /\ call.msg = "transit" /\ call.from = "S1"
    /\ call.callbacks[3] > 0
    /\ Len(Displayed) = 2

----------------------------------------------------------------------------
\* The hook methods of the Transition machine.

\* A sequence of transition instances as the tests display them.
Shown(transitions) == [i \in 1..Len(transitions) |-> to_string(transitions[i])]

\* No client call has written or emptied the hooks log.
HooksUntouched ==
    \A i \in 1..Len(ops) :
        ops[i][1] \notin {"clear_all", "transition_hook", "change_state_hook"}
\* The latest call of the machine came right after a clear_all.
AfterClearAll == Len(ops) >= 2 /\ ops[Len(ops) - 1] = <<"clear_all">>

\* C36: the Transition machine calls transition_hook or change_state_hook
\* exactly once per change of state, with the old and the new state of the
\* transition notification and in the order of the notifications: the hooks
\* logged during a call are the transitions the monitor was notified of, with
\* at most the change being notified ahead; once the call has returned, they
\* are what every transition callback registered at its start was handed.
\* Cascaded changes are included: transit from S3 logs S3->S4, S4->>S0, the
\* whole of the hooks log when the call follows a clear_all.
C36_HooksMatchCallbacks ==
    sm = "Transition" =>
        LET mine == Since(hooks, call.hooks_mark)
            swaps == SelectSeq(trace, LAMBDA e : e.op = "swap")
            pending == IF ~Idle /\ Top.pc = "notify" THEN 1 ELSE 0
        IN  /\ Len(mine) = Len(swaps)
            /\ Len(mine) = Len(Displayed) + pending
            /\ SubSeq(mine, 1, Len(Displayed)) = Displayed
            /\ (NeverCleared /\ HooksUntouched) =>
                  SubSeq(hooks, 1, Len(tr_log)) = Shown(tr_log)
            /\ Idle =>
                  /\ \A c \in 1..call.callbacks[3] :
                         Shown(Heard("transition", transition_callbacks[c])) = mine
                  /\ (call.msg = "transit" /\ call.from = "S3") =>
                         /\ mine = <<"S3->S4", "S4->>S0">>
                         /\ AfterClearAll => hooks = mine
                  /\ (call.msg = "transit" /\ call.from = "S1") =>
                         mine = <<"S1->S2", "S2->S3">>

\* The Transition machine has served transit in S3: a transition and the
\* change-state of the enter handler of S4 have each called their hook.
C36_Witness ==
    /\ sm = "Transition" /\ Idle
    /\ call.msg = "transit" /\ call.from = "S3"
    /\ AfterClearAll
    /\ Len(hooks) = 2

----------------------------------------------------------------------------
\* The path of the transition notifications.

\* C37: the transitions a machine has notified its monitor of form a connected
\* path: the old state of each is the new state of the one before, the first
\* starts in the initial state, pops included; and unless a change of state
\* is waiting for its notification, the current state is the new state of the
\* last notification, in particular whenever no dispatch is in progress.
C37_ConnectedPath ==
    sm \in Generated =>
        /\ \A i \in 2..Len(tr_log) : tr_log[i].old_state = tr_log[i - 1].new_state
        /\ (NeverCleared /\ tr_log # <<>>) => tr_log[1].old_state = InitialState(sm)
        /\ (Idle \/ Top.pc # "notify") =>
              IF tr_log # <<>> THEN state = tr_log[Len(tr_log)].new_state
              ELSE NeverCleared => state = InitialState(sm)

\* The StateStack machine has returned from a pop that followed other
\* transitions: the path runs through the restored state.
C37_Witness ==
    /\ sm = "StateStack" /\ Idle
    /\ call.msg = "pop"
    /\ Len(tr_log) >= 2
    /\ tr_log[Len(tr_log)].info.kind = "Transition"
    /\ tr_log[Len(tr_log)].new_state # tr_log[Len(tr_log)].info.source

----------------------------------------------------------------------------
\* Properties of the Demo machine (specification DemoSpec).

\* The state tag and the state context agree, in the struct and in whatever
\* the handlers and callbacks of the latest call found, and the machine has
\* left Init.
DemoAgrees ==
    /\ demo.state = demo.state_context.variant
    /\ demo.state \in {"Foo", "Bar"}
    /\ \A i \in 1..Len(demo.observed) :
           demo.observed[i].state = demo.observed[i].context

\* The calls made since new() are inc and next calls.
IncAndNextOnly == \A i \in 1..Len(ops) : ops[i][1] \in {"inc", "next"}

\* C38 as stated: after new() and any inc and next calls the state tag and
\* the state context agree, no call faults, and every inc returns a value.
C38_DemoNeverFaults ==
    (sm = "Demo" /\ IncAndNextOnly) =>
        /\ DemoAgrees
        /\ demo.fault = NoFault
        /\ last_op[1] = "inc" => last_op[3] # None

\* C38, amended: after new() and any inc and next calls the state tag and
\* the state context agree and the machine is never in Init, so no coercion
\* of a state context or of event arguments faults and an inc that comes
\* back has a value, the variable of the current state; the only fault is an
\* i32 addition that overflows in a build with overflow checks.
C38_DemoConsistent ==
    (sm = "Demo" /\ IncAndNextOnly) =>
        /\ DemoAgrees
        /\ demo.fault \in {NoFault, AddOverflow}
        /\ demo.fault = AddOverflow => demo.overflow_checks
        /\ (last_op[1] = "inc" /\ demo.fault = NoFault) =>
               last_op[3] = Some(IF demo.state = "Foo" THEN demo.state_context.x
                                 ELSE demo.state_context.y)

\* inc has returned a value in Foo after the machine went through Bar and came
\* back by the change-state.
C38_Witness ==
    /\ sm = "Demo" /\ IncAndNextOnly
    /\ last_op[1] = "inc" /\ last_op[3] # None
    /\ demo.fault = NoFault
    /\ demo.state = "Foo"
    /\ demo.y > 0

----------------------------------------------------------------------------
\* The default monitor.

Unresized ==
    \A i \in 1..Len(ops) :
        ops[i][1] \notin {"set_event_history_capacity", "set_transition_history_capacity"}

\* C39: a monitor built by default() has event capacity Some(0) and transition
\* capacity Some(1); until a capacity is changed its event history stays empty
\* and its transition history holds at most one transition, the most recent
\* one notified.
C39_DefaultMonitor ==
    created[3] = "default" =>
        /\ created[1] = Some(0)
        /\ created[2] = Some(1)
        /\ Unresized =>
              /\ event_history_capacity = Some(0)
              /\ transition_history_capacity = Some(1)
              /\ event_history = <<>>
              /\ Len(transition_history) <= 1
              /\ transition_history = Newest(tr_log, 1)

\* A monitor built by default() has handled an event and has been notified of
\* two transitions.
C39_Witness ==
    /\ sm = "TestMachine" /\ created[3] = "default"
    /\ Unresized
    /\ ev_log # <<>>
    /\ Len(tr_log) >= 2
    /\ Len(transition_history) = 1

====
